---- MODULE Spec2Model ----
(***************************************************************************)
(* Model of the ECC chip of the Orchard circuit                            *)
(* (src/src/circuit/gadget/ecc/chip.rs).                                   *)
(*                                                                         *)
(* EccChip<C> is generic over the curve C.  The model instantiates C with  *)
(* a toy curve of the same shape as Pallas: y^2 = x^3 + 5 over F_p with    *)
(* p = 613, of prime order q = 577 = 2^9 + 65, where 5 is a non-square     *)
(* mod p (no affine point has x = 0) and q is odd (no point has order 2).  *)
(* Fixed-base windows are 2 bits wide (the protocol's are 3 bits wide), so *)
(* that for every window a constant z with y + z square and -y + z         *)
(* non-square exists in the toy field.                                     *)
(*                                                                         *)
(* The files chip.rs declares as `mod add;`, `mod add_complete;`,          *)
(* `mod double;`, `mod mul;`, `mod mul_fixed;`, `mod mul_fixed_short;`,    *)
(* `mod util;`, `mod witness_*;` and the crate's `constants` module are    *)
(* not among the sources; their definitions below follow spec.md, and the  *)
(* cells each gate reads follow EccChip::configure.                        *)
(***************************************************************************)
EXTENDS Integers, Sequences, FiniteSets, TLC

-----------------------------------------------------------------------------
(* The curve C: CurveAffine (toy instantiation). *)

\* Modulus of C::Base.
FP == 613

\* The curve is y^2 = x^3 + CurveB.
CurveB == 5

\* Modulus of C::Scalar: the (prime) order of the group.
FQ == 577

\* C::Scalar::NUM_BITS: FQ = 2^(NUM_BITS - 1) + t_q.
NUM_BITS == 10

\* "The scalar field `F_q = 2^254 + t_q`": here F_q = 2^9 + t_q.
t_q == FQ - 2 ^ (NUM_BITS - 1)

\* Option::None: the value of a cell when only the circuit's shape is built
\* (no field element is negative).
None == 0 - 1

\* Option::<C>::None: no point is given.
NoPoint == [none |-> TRUE]

\* A register that holds no handle.
Null == [null |-> TRUE]

-----------------------------------------------------------------------------
(* Arithmetic of C::Base. *)

FAdd(x, y) == (x + y) % FP
FSub(x, y) == (x - y) % FP
FMul(x, y) == (x * y) % FP
FNeg(x) == (FP - x) % FP
FSquare(x) == (x * x) % FP

RECURSIVE FPow(_, _)
FPow(x, e) ==
    IF e = 0 THEN 1
    ELSE LET h == FPow(x, e \div 2)
             s == (h * h) % FP
         IN  IF e % 2 = 1 THEN (s * x) % FP ELSE s

\* Field::invert, for x # 0 (invert() of zero is CtOption::None).
FInv(x) == FPow(x, FP - 2)

\* y^2 = x^3 + b
OnCurve(x, y) == FSquare(y) = FAdd(FMul(FSquare(x), x), CurveB)

-----------------------------------------------------------------------------
(* The group of C, as the tests use it for their reference values          *)
(* (`point_val * scalar`, `.to_affine()`): the identity is a value of its  *)
(* own, an affine point is its coordinate pair.                            *)

Identity == [identity |-> TRUE]

Pt(x, y) == [x |-> x, y |-> y]

CurveNeg(P) == IF P = Identity THEN Identity ELSE Pt(P.x, FNeg(P.y))

CurveAdd(P, Q) ==
    IF P = Identity THEN Q
    ELSE IF Q = Identity THEN P
    ELSE IF P.x = Q.x /\ FAdd(P.y, Q.y) = 0 THEN Identity
    ELSE LET l == IF P.x = Q.x
                  THEN FMul(FMul(3, FSquare(P.x)), FInv(FMul(2, P.y)))
                  ELSE FMul(FSub(Q.y, P.y), FInv(FSub(Q.x, P.x)))
             x3 == FSub(FSub(FSquare(l), P.x), Q.x)
         IN  Pt(x3, FSub(FMul(l, FSub(P.x, x3)), P.y))

\* A generator of the group.
GeneratorG == Pt(7, 31)

\* [k]P by double-and-add, least significant bit first (`point * scalar`).
RECURSIVE CurveMul(_, _)
CurveMul(k, P) ==
    IF k = 0 THEN Identity
    ELSE LET h == CurveMul(k \div 2, CurveAdd(P, P))
         IN  IF k % 2 = 1 THEN CurveAdd(P, h) ELSE h

\* Every element of the group: MultTable[i + 1] = [i]G.
MultTable == [i \in 1 .. FQ |-> CurveMul(i - 1, GeneratorG)]

\* [i]G
MultG(i) == MultTable[(i % FQ) + 1]

\* The discrete logarithm of P to the base G.
IndexOf(P) == CHOOSE i \in 0 .. FQ - 1 : MultTable[i + 1] = P

\* The reference group law and scalar multiplication, by the index of the
\* operands: [i]G + [j]G = [i + j]G and [k]([i]G) = [k * i]G.
RefAdd(P, Q) == MultG(IndexOf(P) + IndexOf(Q))
RefMul(k, P) == MultG((k % FQ) * IndexOf(P))

-----------------------------------------------------------------------------
(* Values of the chip. *)

\* Result::Err(e)
Err(e) == [err |-> e]
IsErr(r) == "err" \in DOMAIN r

\* EccPoint { x, y }: the values of the two cells.  The struct has no other
\* field, so the group's identity, which has no affine encoding, travels as
\* the pair (0, 0): x = 0 is the x-coordinate of no point of the curve, and
\* the complete addition gate reads beta = x_p^{-1} and gamma = x_q^{-1}.
EccPoint(x, y) == [x |-> x, y |-> y]
IsPoint(r) == DOMAIN r = {"x", "y"}
IsKnown(P) == P.x # None /\ P.y # None
IdentityCells == EccPoint(0, 0)

\* The cells of a group element, and the group element of two cells.
ToCells(P) == IF P = Identity THEN IdentityCells ELSE P
FromCells(P) == IF P = IdentityCells THEN Identity ELSE P

\* The cells hold an affine point of the curve.
IsAffine(P) == IsPoint(P) /\ IsKnown(P) /\ OnCurve(P.x, P.y)
\* The cells hold a group element: an affine point or the identity.
IsGroupElement(P) == IsPoint(P) /\ (P = IdentityCells \/ IsAffine(P))

-----------------------------------------------------------------------------
(* witness_point *)

\* witness_point::assign_region: "asserting (when a concrete value is
\* supplied) that it satisfies the curve equation".
witness_point_assign_region(value) ==
    IF value = NoPoint THEN EccPoint(None, None)
    ELSE IF OnCurve(value.x, value.y) THEN EccPoint(value.x, value.y)
    ELSE Err("InvalidPointError")

\* EccChip::witness_point, unchecked: the value goes to the cells as it is.
witness_point_unchecked(value) ==
    IF value = NoPoint THEN EccPoint(None, None) ELSE EccPoint(value.x, value.y)

\* EccChip::witness_point: the region's result, its error propagated by `?`.
witness_point(value) == witness_point_assign_region(value)

-----------------------------------------------------------------------------
(* Incomplete addition *)

\* add::assign_region: lambda = (y_q - y_p)/(x_q - x_p),
\* x_a = lambda^2 - x_p - x_q, y_a = lambda (x_p - x_a) - y_p.  The slope of
\* two points of equal x does not exist: the inverse of zero is absent.
add_assign_region(a, b) ==
    IF ~IsKnown(a) \/ ~IsKnown(b) THEN EccPoint(None, None)
    ELSE IF a.x = b.x THEN Err("SynthesisError")
    ELSE LET lambda == FMul(FSub(b.y, a.y), FInv(FSub(b.x, a.x)))
             x_a == FSub(FSub(FSquare(lambda), a.x), b.x)
             y_a == FSub(FMul(lambda, FSub(a.x, x_a)), a.y)
         IN  EccPoint(x_a, y_a)

\* EccChip::add with its first operand passed twice.
add_first_twice(a, b) == add_assign_region(a, a)

\* EccChip::add
add(a, b) == add_assign_region(a, b)

-----------------------------------------------------------------------------
(* Doubling *)

\* double::assign_region: lambda = 3 x_p^2 / (2 y_p),
\* x_a = lambda^2 - 2 x_p, y_a = lambda (x_p - x_a) - y_p.
double_assign_region(a) ==
    IF ~IsKnown(a) THEN EccPoint(None, None)
    ELSE IF a.y = 0 THEN Err("SynthesisError")
    ELSE LET lambda == FMul(FMul(3, FSquare(a.x)), FInv(FMul(2, a.y)))
             x_a == FSub(FSquare(lambda), FMul(2, a.x))
             y_a == FSub(FMul(lambda, FSub(a.x, x_a)), a.y)
         IN  EccPoint(x_a, y_a)

\* EccChip::double handing back its operand.
double_returns_operand(a) == a

\* EccChip::double
double(a) == double_assign_region(a)

-----------------------------------------------------------------------------
(* Complete addition *)

\* inv0: the inverse witness of a quantity, 0 where it is not defined.
Inv0(v) == IF v = 0 THEN 0 ELSE FInv(v)
\* The indicator of a quantity: 1 where its inverse is defined.
Indicator(v) == IF v = 0 THEN 0 ELSE 1

\* The witnesses of one complete addition row, in the cells configure gives
\* the gate: (x_p, y_p) in P, (x_q, y_q) in A, the result (x_r, y_r) in A on
\* the next row, lambda in lambda.0, the indicators a, b, c, d in
\* add_complete_bool and alpha = (x_q - x_p)^{-1}, beta = x_p^{-1},
\* gamma = x_q^{-1}, delta = (y_p + y_q)^{-1} in add_complete_inv.
add_complete_row(p, q) ==
    LET dx == FSub(q.x, p.x)
        sy == FAdd(p.y, q.y)
        lambda == IF dx # 0 THEN FMul(FSub(q.y, p.y), Inv0(dx))
                  ELSE IF p.y # 0 /\ sy # 0
                       THEN FMul(FMul(3, FSquare(p.x)), FInv(FMul(2, p.y)))
                       ELSE 0
        x_s == FSub(FSub(FSquare(lambda), p.x), q.x)
        y_s == FSub(FMul(lambda, FSub(p.x, x_s)), p.y)
        r == IF p.x = 0 THEN q                     \* P is the identity
             ELSE IF q.x = 0 THEN p                \* Q is the identity
             ELSE IF dx = 0 /\ sy = 0 THEN IdentityCells   \* P = -Q
             ELSE EccPoint(x_s, y_s)               \* doubling or generic
    IN  [x_p |-> p.x, y_p |-> p.y, x_q |-> q.x, y_q |-> q.y,
         a |-> Indicator(dx), b |-> Indicator(p.x),
         c |-> Indicator(q.x), d |-> Indicator(sy),
         alpha |-> Inv0(dx), beta |-> Inv0(p.x),
         gamma |-> Inv0(q.x), delta |-> Inv0(sy),
         lambda |-> lambda, x_r |-> r.x, y_r |-> r.y]

\* add_complete::assign_region: "handles every input combination".
add_complete_assign_region(a, b) ==
    IF ~IsKnown(a) \/ ~IsKnown(b) THEN EccPoint(None, None)
    ELSE LET row == add_complete_row(a, b)
         IN  EccPoint(row.x_r, row.y_r)

\* EccChip::add_complete laid out by the incomplete addition.
add_complete_as_add(a, b) == add_assign_region(a, b)

\* EccChip::add_complete
add_complete(a, b) == add_complete_assign_region(a, b)

-----------------------------------------------------------------------------
(* Scalars *)

\* constants::FIXED_BASE_WINDOW_SIZE: the width of a fixed-base window, in bits.
WindowWidth == 2

\* constants::H: the number of values of a window.
H == 2 ^ WindowWidth

\* constants::NUM_WINDOWS: the windows of a full-width scalar.
NUM_WINDOWS == (NUM_BITS + WindowWidth - 1) \div WindowWidth

\* constants::L_VALUE: the bits of the magnitude of a short signed scalar.
ShortBits == 3

\* constants::NUM_WINDOWS_SHORT: the windows of a short scalar's magnitude.
NUM_WINDOWS_SHORT == (ShortBits + WindowWidth - 1) \div WindowWidth

\* util: the n bits of k, most significant first.
Bits(k, n) == [i \in 1 .. n |-> (k \div 2 ^ (n - i)) % 2]

\* util::decompose_scalar_fixed: the windows of k over num_bits bits, least
\* significant first.
decompose_scalar_fixed(k, num_bits) ==
    [w \in 1 .. (num_bits + WindowWidth - 1) \div WindowWidth
        |-> (k \div H ^ (w - 1)) % H]

\* witness_scalar_var::assign_region: "decomposes k (plus a fixed known
\* offset ...) into 255 big-endian bits"; k + t_q is a sum of C::Scalar.
witness_scalar_var_assign_region(value) ==
    [type |-> "EccScalarVar",
     value |-> value,
     k_bits |-> IF value = None THEN [i \in 1 .. NUM_BITS |-> None]
                ELSE Bits((value + t_q) % FQ, NUM_BITS)]

\* witness_scalar_fixed::assign_region: "decomposes the full-width scalar
\* into little-endian w-bit windows".
witness_scalar_fixed_assign_region(value, num_bits) ==
    [type |-> "EccScalarFixed",
     value |-> value,
     k_bits |-> IF value = None
                THEN [w \in 1 .. (num_bits + WindowWidth - 1) \div WindowWidth |-> None]
                ELSE decompose_scalar_fixed(value, num_bits)]

\* The sign and the magnitude of a scalar read as a signed value: the upper
\* half of the field is negative.
SignOf(value) == IF value > (FQ - 1) \div 2 THEN 1 ELSE 0
MagnitudeOf(value) == IF SignOf(value) = 1 THEN FQ - value ELSE value

\* witness_scalar_fixed_short::assign_region: "as above but over a reduced
\* bit-length magnitude, plus one boolean sign cell"; a magnitude that
\* ShortBits bits do not hold is out of range, a SynthesisError.
witness_scalar_fixed_short_assign_region(value) ==
    IF value = None
    THEN [type |-> "EccScalarFixedShort", magnitude |-> None, sign |-> None,
          k_bits |-> [w \in 1 .. NUM_WINDOWS_SHORT |-> None]]
    ELSE IF MagnitudeOf(value) >= 2 ^ ShortBits THEN Err("SynthesisError")
    ELSE [type |-> "EccScalarFixedShort",
          magnitude |-> MagnitudeOf(value),
          sign |-> SignOf(value),
          k_bits |-> decompose_scalar_fixed(MagnitudeOf(value), ShortBits)]

\* EccChip::witness_scalar_var without the offset t_q.
witness_scalar_var_no_offset(value) ==
    [type |-> "EccScalarVar",
     value |-> value,
     k_bits |-> IF value = None THEN [i \in 1 .. NUM_BITS |-> None]
                ELSE Bits(value, NUM_BITS)]

\* EccChip::witness_scalar_var
witness_scalar_var(value) == witness_scalar_var_assign_region(value)

\* EccChip::witness_scalar_fixed given the bits of a short scalar.
witness_scalar_fixed_short_bits(value) ==
    witness_scalar_fixed_assign_region(value, ShortBits)

\* EccChip::witness_scalar_fixed: the region is given C::Scalar::NUM_BITS.
witness_scalar_fixed(value) == witness_scalar_fixed_assign_region(value, NUM_BITS)

\* EccChip::witness_scalar_fixed_short
witness_scalar_fixed_short(value) == witness_scalar_fixed_short_assign_region(value)

-----------------------------------------------------------------------------
(* Variable-base scalar multiplication *)

\* -P in cells.
NegCells(P) == EccPoint(P.x, FNeg(P.y))

\* One row of the ladder, Acc <- (Acc + P) + Acc, by the two slopes the
\* variable-base mul gate reads (lambda.0 and lambda.1):
\* lambda1 = (y_a - y_p)/(x_a - x_p), x_r = lambda1^2 - x_a - x_p,
\* lambda2 = 2 y_a/(x_a - x_r) - lambda1, x_a' = lambda2^2 - x_a - x_r,
\* y_a' = lambda2 (x_a - x_a') - y_a.  Neither slope exists when the two
\* points it joins have the same x.
mul_row(acc, P) ==
    IF acc.x = P.x THEN Err("SynthesisError")
    ELSE LET lambda1 == FMul(FSub(acc.y, P.y), FInv(FSub(acc.x, P.x)))
             x_r == FSub(FSub(FSquare(lambda1), acc.x), P.x)
         IN  IF acc.x = x_r THEN Err("SynthesisError")
             ELSE LET lambda2 == FSub(FMul(FMul(2, acc.y), FInv(FSub(acc.x, x_r))),
                                      lambda1)
                      x_n == FSub(FSub(FSquare(lambda2), acc.x), x_r)
                      y_n == FSub(FMul(lambda2, FSub(acc.x, x_n)), acc.y)
                  IN  EccPoint(x_n, y_n)

\* The rows of the bits k_bits[i], ..., k_bits[n - 1]: P is the base where
\* the bit is set and its negation where it is not.
RECURSIVE mul_rows(_, _, _, _)
mul_rows(acc, base, k_bits, i) ==
    IF IsErr(acc) \/ i >= Len(k_bits) THEN acc
    ELSE mul_rows(mul_row(acc, IF k_bits[i] = 1 THEN base ELSE NegCells(base)),
                  base, k_bits, i + 1)

\* mul::assign_region: "a double-and-add ladder consuming bits
\* most-significant-first": Acc starts as [2]base, every bit but the last
\* takes one row, and the last bit k_0 returns Acc or Acc - base.  Over the
\* bits of k + t_q the ladder's value is [2^(NUM_BITS - 1) + k + t_q]base.
mul_assign_region(scalar, base) ==
    IF scalar.value = None \/ ~IsKnown(base) THEN EccPoint(None, None)
    ELSE LET acc == mul_rows(double_assign_region(base), base, scalar.k_bits, 1)
         IN  IF IsErr(acc) THEN acc
             ELSE IF scalar.k_bits[Len(scalar.k_bits)] = 1 THEN acc
             ELSE add_complete_assign_region(acc, NegCells(base))

\* EccChip::mul
mul(scalar, base) == mul_assign_region(scalar, base)

-----------------------------------------------------------------------------
(* The fixed bases and their tables *)

\* The variants of EccFixedPoints.
FixedBases == {"CommitIvkR", "NoteCommitR", "NullifierK", "ValueCommitR", "ValueCommitV"}

\* OrchardFixedBases::name: EccFixedPoints are equal, and ordered, by name.
name(fixed_point) ==
    CASE fixed_point = "CommitIvkR" -> "commit_ivk_r"
      [] fixed_point = "NoteCommitR" -> "note_commit_r"
      [] fixed_point = "NullifierK" -> "nullifier_k"
      [] fixed_point = "ValueCommitR" -> "value_commit_r"
      [] fixed_point = "ValueCommitV" -> "value_commit_v"

\* constants::*::generator(): the generators, on the toy curve [1]G, [11]G,
\* [64]G, [273]G and [542]G.
generator(fixed_point) ==
    CASE fixed_point = "CommitIvkR" -> Pt(7, 31)
      [] fixed_point = "NoteCommitR" -> Pt(474, 406)
      [] fixed_point = "NullifierK" -> Pt(577, 297)
      [] fixed_point = "ValueCommitR" -> Pt(55, 360)
      [] fixed_point = "ValueCommitV" -> Pt(160, 207)

\* constants::*::Z: per window, the least z for which y + z is a square and
\* -y + z is not, for the y of each of the window's H points.
Z(fixed_point) ==
    CASE fixed_point = "CommitIvkR" -> <<69, 171, 424, 379, 93>>
      [] fixed_point = "NoteCommitR" -> <<361, 25, 158, 354, 106>>
      [] fixed_point = "NullifierK" -> <<379, 6, 466, 115, 425>>
      [] fixed_point = "ValueCommitR" -> <<368, 145, 369, 93, 592>>
      [] fixed_point = "ValueCommitV" -> <<65, 588, 189, 39, 30>>

\* constants::*::Z_SHORT
Z_SHORT(fixed_point) ==
    CASE fixed_point = "CommitIvkR" -> <<69, 4>>
      [] fixed_point = "NoteCommitR" -> <<361, 431>>
      [] fixed_point = "NullifierK" -> <<379, 314>>
      [] fixed_point = "ValueCommitR" -> <<368, 338>>
      [] fixed_point = "ValueCommitV" -> <<65, 182>>

\* constants::*::U: per window and per value of the window, a square root of
\* y + z.
U(fixed_point) ==
    CASE fixed_point = "CommitIvkR" ->
            <<<<10, 19, 274, 67>>, <<125, 229, 216, 253>>, <<185, 34, 139, 75>>,
              <<26, 195, 32, 89>>, <<91, 265, 278, 224>>>>
      [] fixed_point = "NoteCommitR" ->
            <<<<147, 263, 108, 13>>, <<128, 57, 181, 254>>, <<112, 73, 257, 97>>,
              <<196, 167, 166, 197>>, <<275, 289, 81, 294>>>>
      [] fixed_point = "NullifierK" ->
            <<<<26, 195, 32, 89>>, <<100, 287, 101, 253>>, <<277, 169, 41, 184>>,
              <<188, 3, 252, 208>>, <<238, 132, 166, 2>>>>
      [] fixed_point = "ValueCommitR" ->
            <<<<153, 230, 34, 219>>, <<164, 144, 92, 238>>, <<303, 9, 228, 251>>,
              <<234, 160, 82, 111>>, <<221, 66, 304, 203>>>>
      [] fixed_point = "ValueCommitV" ->
            <<<<181, 236, 98, 253>>, <<189, 156, 205, 305>>, <<26, 60, 300, 149>>,
              <<102, 170, 154, 117>>, <<224, 102, 139, 149>>>>

\* constants::*::U_SHORT
U_SHORT(fixed_point) ==
    CASE fixed_point = "CommitIvkR" -> <<<<10, 19, 274, 67>>, <<220, 15, 37, 196>>>>
      [] fixed_point = "NoteCommitR" -> <<<<147, 263, 108, 13>>, <<5, 291, 219, 283>>>>
      [] fixed_point = "NullifierK" -> <<<<26, 195, 32, 89>>, <<108, 202, 214, 47>>>>
      [] fixed_point = "ValueCommitR" -> <<<<153, 230, 34, 219>>, <<240, 263, 166, 88>>>>
      [] fixed_point = "ValueCommitV" -> <<<<181, 236, 98, 253>>, <<175, 236, 304, 97>>>>

\* The scalar of the point that window w (from 0) holds for the value k: every
\* window but the last is offset by one, [(k + 1) H^w]B, and the last takes
\* the offsets back, [k H^w - sum_{j < w} H^j]B.
window_scalar(w, k, num_windows) ==
    IF w < num_windows - 1 THEN ((k + 1) * H ^ w) % FQ
    ELSE ((k * H ^ w) + FQ - (((H ^ w - 1) \div (H - 1)) % FQ)) % FQ

\* FixedBase::compute_window_table
compute_window_table(B, num_windows) ==
    [w \in 1 .. num_windows |->
        [k \in 1 .. H |-> RefMul(window_scalar(w - 1, k - 1, num_windows), B)]]

\* poly * (X - r), coefficients from the constant term up.
PolyTimesLinear(poly, r) ==
    [i \in 1 .. Len(poly) + 1 |->
        FSub(IF i > 1 THEN poly[i - 1] ELSE 0,
             FMul(r % FP, IF i <= Len(poly) THEN poly[i] ELSE 0))]

\* The product of (X - m) over m in 0 .. top, m # j.
RECURSIVE BasisNumerator(_, _)
BasisNumerator(j, top) ==
    IF top < 0 THEN <<1>>
    ELSE IF top = j THEN BasisNumerator(j, top - 1)
    ELSE PolyTimesLinear(BasisNumerator(j, top - 1), top)

\* The product of (j - m) over m in 0 .. top, m # j.
RECURSIVE BasisDenominator(_, _)
BasisDenominator(j, top) ==
    IF top < 0 THEN 1
    ELSE IF top = j THEN BasisDenominator(j, top - 1)
    ELSE FMul(BasisDenominator(j, top - 1), FSub(j, top))

\* Coefficient i of the sum over j in 0 .. top of xs[j] L_j(X).
RECURSIVE LagrangeCoeff(_, _, _)
LagrangeCoeff(xs, i, top) ==
    IF top < 0 THEN 0
    ELSE FAdd(LagrangeCoeff(xs, i, top - 1),
              FMul(FMul(xs[top + 1], FInv(BasisDenominator(top, Len(xs) - 1))),
                   BasisNumerator(top, Len(xs) - 1)[i]))

\* The coefficients of the polynomial of degree < Len(xs) through the points
\* (k, xs[k]), k from 0.
lagrange_interpolate(xs) ==
    [i \in 1 .. Len(xs) |-> LagrangeCoeff(xs, i, Len(xs) - 1)]

\* FixedBase::compute_lagrange_coeffs: "the unique polynomial interpolating
\* the window's H possible x-coordinates".
compute_lagrange_coeffs(B, num_windows) ==
    [w \in 1 .. num_windows |->
        lagrange_interpolate([k \in 1 .. H |-> compute_window_table(B, num_windows)[w][k].x])]

\* Option: Some(v) and None of the table accessors.
Some(v) == [some |-> v]
NoTable == [none |-> TRUE]

\* BTreeMap::new, BTreeMap::insert and BTreeMap::get(..).cloned(): the keys
\* are names.
EmptyMap == [key \in {} |-> NoTable]
Insert(map, fixed_point, v) ==
    [key \in DOMAIN map \cup {name(fixed_point)} |->
        IF key = name(fixed_point) THEN v ELSE map[key]]
Get(map, fixed_point) ==
    IF name(fixed_point) \in DOMAIN map THEN Some(map[name(fixed_point)]) ELSE NoTable

\* load: the array `bases`.
bases == <<"CommitIvkR", "NoteCommitR", "NullifierK", "ValueCommitR", "ValueCommitV">>

\* load: the maps after the first n bases have been inserted.
RECURSIVE load_bases(_)
load_bases(n) ==
    IF n = 0
    THEN [lagrange_coeffs |-> EmptyMap, lagrange_coeffs_short |-> EmptyMap,
          z |-> EmptyMap, z_short |-> EmptyMap, u |-> EmptyMap, u_short |-> EmptyMap]
    ELSE LET maps == load_bases(n - 1)
             base == bases[n]
         IN  [lagrange_coeffs |->
                  Insert(maps.lagrange_coeffs, base,
                         compute_lagrange_coeffs(generator(base), NUM_WINDOWS)),
              lagrange_coeffs_short |->
                  Insert(maps.lagrange_coeffs_short, base,
                         compute_lagrange_coeffs(generator(base), NUM_WINDOWS_SHORT)),
              z |-> Insert(maps.z, base, Z(base)),
              z_short |-> Insert(maps.z_short, base, Z_SHORT(base)),
              u |-> Insert(maps.u, base, [w \in 1 .. NUM_WINDOWS |->
                                             [k \in 1 .. H |-> U(base)[w][k] % FP]]),
              u_short |-> Insert(maps.u_short, base, [w \in 1 .. NUM_WINDOWS_SHORT |->
                                             [k \in 1 .. H |-> U_SHORT(base)[w][k] % FP]])]

\* EccChip::load
load == load_bases(Len(bases))

\* get_fixed taking the tables out of the maps (BTreeMap::remove).
get_fixed_take(layouter_loaded, fixed_point) ==
    LET Without(map) == [key \in DOMAIN map \ {name(fixed_point)} |-> map[key]]
    IN  [loaded |-> [lagrange_coeffs |-> Without(layouter_loaded.lagrange_coeffs),
                     lagrange_coeffs_short |-> Without(layouter_loaded.lagrange_coeffs_short),
                     z |-> Without(layouter_loaded.z),
                     z_short |-> Without(layouter_loaded.z_short),
                     u |-> Without(layouter_loaded.u),
                     u_short |-> Without(layouter_loaded.u_short)],
         res |-> [fixed_point |-> fixed_point,
                  lagrange_coeffs |-> Get(layouter_loaded.lagrange_coeffs, fixed_point),
                  lagrange_coeffs_short |-> Get(layouter_loaded.lagrange_coeffs_short, fixed_point),
                  z |-> Get(layouter_loaded.z, fixed_point),
                  z_short |-> Get(layouter_loaded.z_short, fixed_point),
                  u |-> Get(layouter_loaded.u, fixed_point),
                  u_short |-> Get(layouter_loaded.u_short, fixed_point)]]

\* get_fixed with the full and the short coefficients, and the full and the
\* short u, exchanged.
get_fixed_exchanged(layouter_loaded, fixed_point) ==
    [loaded |-> layouter_loaded,
     res |-> [fixed_point |-> fixed_point,
              lagrange_coeffs |-> Get(layouter_loaded.lagrange_coeffs_short, fixed_point),
              lagrange_coeffs_short |-> Get(layouter_loaded.lagrange_coeffs, fixed_point),
              z |-> Get(layouter_loaded.z, fixed_point),
              z_short |-> Get(layouter_loaded.z_short, fixed_point),
              u |-> Get(layouter_loaded.u_short, fixed_point),
              u_short |-> Get(layouter_loaded.u, fixed_point)]]

\* EccChip::get_fixed: the EccFixedPoint it returns, and the layouter's
\* tables, which it only reads (layouter.loaded() is a shared reference).
get_fixed(layouter_loaded, fixed_point) ==
    [loaded |-> layouter_loaded,
     res |-> [fixed_point |-> fixed_point,
              lagrange_coeffs |-> Get(layouter_loaded.lagrange_coeffs, fixed_point),
              lagrange_coeffs_short |-> Get(layouter_loaded.lagrange_coeffs_short, fixed_point),
              z |-> Get(layouter_loaded.z, fixed_point),
              z_short |-> Get(layouter_loaded.z_short, fixed_point),
              u |-> Get(layouter_loaded.u, fixed_point),
              u_short |-> Get(layouter_loaded.u_short, fixed_point)]]

-----------------------------------------------------------------------------
(* Fixed-base scalar multiplication *)

\* The value at k of the polynomial with the coefficients coeffs[1 .. n],
\* from the constant term up.
RECURSIVE poly_eval(_, _, _)
poly_eval(coeffs, k, n) ==
    IF n = 0 THEN 0
    ELSE FAdd(coeffs[1], FMul(k, poly_eval(Tail(coeffs), k, n - 1)))

\* The point of one window: "evaluate the window's interpolation polynomial
\* at the witnessed digit to obtain a candidate x-coordinate; recover y via
\* y = u^2 - z".
fixed_window_point(coeffs, z, u, k) ==
    EccPoint(poly_eval(coeffs, k, Len(coeffs)), FSub(FSquare(u[k + 1]), z % FP))

\* "accumulate the per-window points using Complete Addition": the sum of
\* the points of the windows 1 .. w.
RECURSIVE mul_fixed_rows(_, _, _, _, _)
mul_fixed_rows(k_bits, coeffs, z, u, w) ==
    IF w = 1 THEN fixed_window_point(coeffs[1], z[1], u[1], k_bits[1])
    ELSE add_complete_assign_region(
             mul_fixed_rows(k_bits, coeffs, z, u, w - 1),
             fixed_window_point(coeffs[w], z[w], u[w], k_bits[w]))

\* The accumulation over one table: a table that is absent, or that has not
\* a row for every window of the scalar, is a SynthesisError.
mul_fixed_windows(k_bits, coeffs, z, u) ==
    IF coeffs = NoTable \/ z = NoTable \/ u = NoTable THEN Err("SynthesisError")
    ELSE IF Len(coeffs.some) # Len(k_bits) \/ Len(z.some) # Len(k_bits)
            \/ Len(u.some) # Len(k_bits)
    THEN Err("SynthesisError")
    ELSE mul_fixed_rows(k_bits, coeffs.some, z.some, u.some, Len(k_bits))

\* mul_fixed::assign_region
mul_fixed_assign_region(scalar, base) ==
    IF scalar.value = None THEN EccPoint(None, None)
    ELSE mul_fixed_windows(scalar.k_bits, base.lagrange_coeffs, base.z, base.u)

\* EccChip::mul_fixed
mul_fixed(scalar, base) == mul_fixed_assign_region(scalar, base)

\* mul_fixed_short::assign_region, the unsigned accumulation: "computes the
\* unsigned accumulation as in 4.8 over the short table".
mul_fixed_short_magnitude(scalar, base) ==
    IF scalar.magnitude = None THEN EccPoint(None, None)
    ELSE mul_fixed_windows(scalar.k_bits, base.lagrange_coeffs_short, base.z_short,
                           base.u_short)

\* mul_fixed_short::assign_region: "then applies the sign": y_out is
\* -y_unsigned when sign = 1 and y_unsigned otherwise, x_out is x_unsigned.
mul_fixed_short_assign_region(scalar, base) ==
    LET unsigned == mul_fixed_short_magnitude(scalar, base)
    IN  IF IsErr(unsigned) \/ ~IsKnown(unsigned) THEN unsigned
        ELSE EccPoint(unsigned.x,
                      IF scalar.sign = 1 THEN FNeg(unsigned.y) ELSE unsigned.y)

\* EccChip::mul_fixed_short without the sign.
mul_fixed_short_unsigned(scalar, base) == mul_fixed_short_magnitude(scalar, base)

\* EccChip::mul_fixed_short
mul_fixed_short(scalar, base) == mul_fixed_short_assign_region(scalar, base)

-----------------------------------------------------------------------------
(* The state of one synthesis (tests::MyCircuit::synthesize): the handles   *)
(* the instructions have returned so far and the last instruction's call.   *)

VARIABLES
    loaded,      \* the layouter's EccLoaded, Null before EccChip::load
    a, b,        \* two point handles (EccPoint), Null when not yet witnessed
    scalar,      \* a scalar handle (EccScalarVar, EccScalarFixed or EccScalarFixedShort)
    fixed,       \* a fixed point handle (EccFixedPoint)
    firstFixed,  \* what the first get_fixed of this synthesis returned
    out,         \* the last instruction: its name, its operands and what it returned
    kept,        \* how many results have been kept as operands
    grid,        \* the layouter's regions and the cells assigned in them
    builder,     \* a Builder (src/src/builder.rs), Null when there is none
    bundle,      \* a Bundle<T>, Null when there is none
    duplex       \* a Duplex (src/src/circuit/gadget/poseidon.rs), Null when there is none

vars == <<loaded, a, b, scalar, fixed, firstFixed, out, kept, grid, builder, bundle, duplex>>

\* The witnessed points are [i]G and [-i]G for i in 1 .. MaxPoint.
MaxPoint == 3

\* At most MaxKept results are fed back as operands.
MaxKept == 2

NoOut == [op |-> "none"]

Init ==
    /\ loaded = Null
    /\ a = Null
    /\ b = Null
    /\ scalar = Null
    /\ fixed = Null
    /\ firstFixed = Null
    /\ out = NoOut
    /\ kept = 0
    /\ grid = Null
    /\ builder = Null
    /\ bundle = Null
    /\ duplex = Null

\* Coordinate pairs that are not on the curve.
OffCurve == {Pt(0, 0), Pt(7, 32), Pt(1, 0)}

\* The values given to witness_point.
PointValues ==
    {MultG(i) : i \in 1 .. MaxPoint} \cup {MultG(FQ - i) : i \in 1 .. MaxPoint}
        \cup OffCurve \cup {NoPoint}

Slot(s) == IF s = "a" THEN a ELSE b

\* let point = EccChip::witness_point(&mut layouter, value)?;
WitnessPoint(s, value) ==
    /\ Slot(s) = Null
    /\ LET r == witness_point(value)
       IN  /\ out' = [op |-> "witness_point", value |-> value, slot |-> s, res |-> r]
           /\ a' = IF s = "a" /\ ~IsErr(r) THEN r ELSE a
           /\ b' = IF s = "b" /\ ~IsErr(r) THEN r ELSE b
    /\ UNCHANGED <<duplex, grid, builder, bundle, loaded, scalar, fixed, firstFixed, kept>>

\* EccChip::add(&mut layouter, &p, &q)
Add(s, t) ==
    /\ Slot(s) # Null /\ Slot(t) # Null
    /\ out' = [op |-> "add", p |-> Slot(s), q |-> Slot(t), res |-> add(Slot(s), Slot(t))]
    /\ UNCHANGED <<duplex, grid, builder, bundle, loaded, a, b, scalar, fixed, firstFixed, kept>>

\* EccChip::add_complete(&mut layouter, &p, &q)
AddComplete(s, t) ==
    /\ Slot(s) # Null /\ Slot(t) # Null
    /\ out' = [op |-> "add_complete", p |-> Slot(s), q |-> Slot(t),
               res |-> add_complete(Slot(s), Slot(t))]
    /\ UNCHANGED <<duplex, grid, builder, bundle, loaded, a, b, scalar, fixed, firstFixed, kept>>

\* EccChip::double(&mut layouter, &p)
Double(s) ==
    /\ Slot(s) # Null
    /\ out' = [op |-> "double", p |-> Slot(s), res |-> double(Slot(s))]
    /\ UNCHANGED <<duplex, grid, builder, bundle, loaded, a, b, scalar, fixed, firstFixed, kept>>

\* The point an instruction returned becomes the operand `a` of the next ones
\* (the test adds `point` and `doubled`).
Keep ==
    /\ kept < MaxKept
    /\ out.op \in {"add", "add_complete", "double"}
    /\ IsPoint(out.res)
    /\ a' = out.res
    /\ out' = NoOut
    /\ kept' = kept + 1
    /\ UNCHANGED <<duplex, grid, builder, bundle, loaded, b, scalar, fixed, firstFixed>>

\* The handles go out of scope (the end of a block of the test).
Reset ==
    /\ out # NoOut
    /\ a' = Null /\ b' = Null /\ scalar' = Null /\ fixed' = Null
    /\ out' = NoOut
    /\ kept' = 0
    /\ UNCHANGED <<duplex, grid, builder, bundle, loaded, firstFixed>>

Slots == {"a", "b"}

\* The point instructions.
Next ==
    \/ \E s \in Slots, value \in PointValues : WitnessPoint(s, value)
    \/ \E s, t \in Slots : Add(s, t)
    \/ \E s, t \in Slots : AddComplete(s, t)
    \/ \E s \in Slots : Double(s)
    \/ Keep
    \/ Reset

Spec == Init /\ [][Next]_vars

-----------------------------------------------------------------------------
(* Point instructions: properties. *)

\* C1: for affine P, Q with x_P # x_Q, add(P, Q) returns the cells of the
\* group-law sum P + Q.
AddIsGroupLaw ==
    (out.op = "add" /\ IsAffine(out.p) /\ IsAffine(out.q) /\ out.p.x # out.q.x)
        => out.res = ToCells(RefAdd(out.p, out.q))

\* add(P, [2]P) has returned [3]P, as in the test.
AddWitness ==
    /\ out.op = "add"
    /\ out.p = MultG(1) /\ out.q = MultG(2)
    /\ out.res = MultG(3)

\* C2: add_complete returns the group-law sum for every combination of
\* operands: add_complete(P, P) = double(P), add_complete(P, -P) is the
\* identity, add_complete(P, identity) = P, and the sum of two identities is
\* the identity.
AddCompleteIsGroupLaw ==
    (out.op = "add_complete" /\ IsGroupElement(out.p) /\ IsGroupElement(out.q))
        => /\ out.res = ToCells(RefAdd(FromCells(out.p), FromCells(out.q)))
           /\ (IsAffine(out.p) /\ out.q = out.p) => out.res = double(out.p)
           /\ (IsAffine(out.p) /\ out.q = ToCells(CurveNeg(out.p)))
                  => out.res = IdentityCells
           /\ out.q = IdentityCells => out.res = out.p
           /\ out.p = IdentityCells => out.res = out.q

\* add_complete(P, identity) has returned P.
AddCompleteWitness ==
    /\ out.op = "add_complete"
    /\ IsAffine(out.p) /\ out.q = IdentityCells
    /\ out.res = out.p

\* C6: for every affine P (every affine point has order > 2), double(P)
\* returns the cells of [2]P.
DoubleIsGroupLaw ==
    (out.op = "double" /\ IsAffine(out.p))
        => out.res = ToCells(RefAdd(out.p, out.p))

\* double(G) has returned [2]G.
DoubleWitness ==
    /\ out.op = "double"
    /\ out.p = MultG(1)
    /\ out.res = MultG(2)

-----------------------------------------------------------------------------
(* Variable-base scalar multiplication: the instructions. *)

\* The values given to witness_scalar_var: every scalar of the field, and an
\* unknown one.
ScalarValues == (0 .. FQ - 1) \cup {None}

\* let scalar = EccChip::witness_scalar_var(&mut layouter, value)?;
WitnessScalarVar(value) ==
    /\ scalar = Null
    /\ scalar' = witness_scalar_var(value)
    /\ out' = [op |-> "witness_scalar_var", value |-> value, res |-> scalar']
    /\ UNCHANGED <<duplex, grid, builder, bundle, loaded, a, b, fixed, firstFixed, kept>>

\* EccChip::mul(&mut layouter, &scalar, &point)
Mul ==
    /\ scalar # Null /\ scalar.type = "EccScalarVar"
    /\ a # Null
    /\ out' = [op |-> "mul", scalar |-> scalar, base |-> a, res |-> mul(scalar, a)]
    /\ UNCHANGED <<duplex, grid, builder, bundle, loaded, a, b, scalar, fixed, firstFixed, kept>>

\* The variable-base instructions.
NextMul ==
    \/ \E value \in PointValues : WitnessPoint("a", value)
    \/ \E value \in ScalarValues : WitnessScalarVar(value)
    \/ Mul
    \/ Reset

SpecMul == Init /\ [][NextMul]_vars

\* (acc * 2 + bit) over the bits, most significant first, in C::Scalar.
RECURSIVE RecomposeBits(_, _)
RecomposeBits(k_bits, n) ==
    IF n = 0 THEN 0 ELSE (2 * RecomposeBits(k_bits, n - 1) + k_bits[n]) % FQ

\* C7: witness_scalar_var of a known scalar k returns exactly NUM_BITS
\* cells, each 0 or 1, that recompose most-significant-first to k + t_q.
ScalarVarRecomposes ==
    (out.op = "witness_scalar_var" /\ out.value # None)
        => /\ out.res.value = out.value
           /\ Len(out.res.k_bits) = NUM_BITS
           /\ \A i \in 1 .. NUM_BITS : out.res.k_bits[i] \in {0, 1}
           /\ RecomposeBits(out.res.k_bits, NUM_BITS) = (out.value + t_q) % FQ

\* A scalar whose sum with t_q wraps around the field has been witnessed.
ScalarVarWitness ==
    /\ out.op = "witness_scalar_var"
    /\ out.value # None /\ out.value + t_q >= FQ
    /\ RecomposeBits(out.res.k_bits, NUM_BITS) = out.value + t_q - FQ

MulIsScalarMulInside ==
    (out.op = "mul" /\ out.scalar.value \in 1 .. FQ - 2 /\ IsAffine(out.base))
        => out.res = ToCells(RefMul(out.scalar.value, out.base))

\* mul fails on the scalars 0 and FQ - 1.
MulFailsAtEnds ==
    (out.op = "mul" /\ out.scalar.value \in {0, FQ - 1} /\ IsAffine(out.base))
        => IsErr(out.res)

-----------------------------------------------------------------------------
(* Fixed-base scalar multiplication: the instructions. *)

\* The values given to witness_scalar_fixed_short: the magnitudes up to
\* 2^ShortBits, the first one that ShortBits bits do not hold, under both
\* signs, and an unknown one.
ShortValues == {v \in 0 .. FQ - 1 : MagnitudeOf(v) <= 2 ^ ShortBits} \cup {None}

\* layouter::SingleChip::new, which loads the chip, and
\* EccChip::<C>::load(&mut layouter)?, whose tables the test drops.
Load ==
    /\ loaded' = IF loaded = Null THEN load ELSE loaded
    /\ out' = [op |-> "load", res |-> load]
    /\ UNCHANGED <<duplex, grid, builder, bundle, a, b, scalar, fixed, firstFixed, kept>>

\* let base = EccChip::get_fixed(&mut layouter, fixed_point)?;
GetFixed(fixed_point) ==
    /\ loaded # Null
    /\ LET r == get_fixed(loaded, fixed_point)
       IN  /\ loaded' = r.loaded
           /\ fixed' = r.res
           /\ firstFixed' = IF firstFixed = Null THEN r.res ELSE firstFixed
           /\ out' = [op |-> "get_fixed", fixed_point |-> fixed_point, res |-> r.res,
                      again |-> firstFixed # Null]
    /\ UNCHANGED <<duplex, grid, builder, bundle, a, b, scalar, kept>>

\* let scalar_fixed = EccChip::witness_scalar_fixed(&mut layouter, value)?;
WitnessScalarFixed(value) ==
    /\ scalar = Null
    /\ scalar' = witness_scalar_fixed(value)
    /\ out' = [op |-> "witness_scalar_fixed", value |-> value, res |-> scalar']
    /\ UNCHANGED <<duplex, grid, builder, bundle, loaded, a, b, fixed, firstFixed, kept>>

\* let scalar_fixed_short = EccChip::witness_scalar_fixed_short(&mut layouter, value)?;
WitnessScalarFixedShort(value) ==
    /\ scalar = Null
    /\ LET r == witness_scalar_fixed_short(value)
       IN  /\ scalar' = IF IsErr(r) THEN scalar ELSE r
           /\ out' = [op |-> "witness_scalar_fixed_short", value |-> value, res |-> r]
    /\ UNCHANGED <<duplex, grid, builder, bundle, loaded, a, b, fixed, firstFixed, kept>>

\* EccChip::mul_fixed(&mut layouter, &scalar_fixed, &base)
MulFixed ==
    /\ scalar # Null /\ scalar.type = "EccScalarFixed"
    /\ fixed # Null
    /\ out' = [op |-> "mul_fixed", scalar |-> scalar, base |-> fixed,
               res |-> mul_fixed(scalar, fixed)]
    /\ UNCHANGED <<duplex, grid, builder, bundle, loaded, a, b, scalar, fixed, firstFixed, kept>>

\* EccChip::mul_fixed_short(&mut layouter, &scalar_fixed_short, &base)
MulFixedShort ==
    /\ scalar # Null /\ scalar.type = "EccScalarFixedShort"
    /\ fixed # Null
    /\ out' = [op |-> "mul_fixed_short", scalar |-> scalar, base |-> fixed,
               res |-> mul_fixed_short(scalar, fixed)]
    /\ UNCHANGED <<duplex, grid, builder, bundle, loaded, a, b, scalar, fixed, firstFixed, kept>>

\* The fixed-base instructions.
NextFixed ==
    \/ Load
    \/ \E fixed_point \in FixedBases : GetFixed(fixed_point)
    \/ \E value \in ScalarValues : WitnessScalarFixed(value)
    \/ \E value \in ShortValues : WitnessScalarFixedShort(value)
    \/ MulFixed
    \/ MulFixedShort
    \/ Reset

SpecFixed == Init /\ [][NextFixed]_vars

\* The base-H positional sum of the windows k_bits[1 .. n], least
\* significant first.
RECURSIVE RecomposeWindows(_, _)
RecomposeWindows(k_bits, n) ==
    IF n = 0 THEN 0 ELSE RecomposeWindows(k_bits, n - 1) + k_bits[n] * H ^ (n - 1)

\* C4: for each of the five fixed bases and every scalar k of the field, 0
\* included, mul_fixed(witness_scalar_fixed(k), get_fixed(base)) returns the
\* cells of [k]base.
MulFixedIsScalarMul ==
    (out.op = "mul_fixed" /\ out.scalar.value # None)
        => out.res = ToCells(RefMul(out.scalar.value, generator(out.base.fixed_point)))

\* mul_fixed has returned [FQ - 1]base = -base for the base ValueCommitV.
MulFixedWitness ==
    /\ out.op = "mul_fixed"
    /\ out.scalar.value = FQ - 1 /\ out.base.fixed_point = "ValueCommitV"
    /\ out.res = ToCells(CurveNeg(generator("ValueCommitV")))

ScalarFixedRecomposes ==
    /\ (out.op = "witness_scalar_fixed" /\ out.value # None)
           => /\ out.res.value = out.value
              /\ Len(out.res.k_bits) = NUM_WINDOWS
              /\ \A w \in 1 .. NUM_WINDOWS : out.res.k_bits[w] \in 0 .. H - 1
              /\ RecomposeWindows(out.res.k_bits, NUM_WINDOWS) = out.value
    /\ (out.op = "witness_scalar_fixed_short" /\ out.value # None /\ ~IsErr(out.res))
           => /\ Len(out.res.k_bits) = NUM_WINDOWS_SHORT
              /\ \A w \in 1 .. NUM_WINDOWS_SHORT : out.res.k_bits[w] \in 0 .. H - 1
              /\ RecomposeWindows(out.res.k_bits, NUM_WINDOWS_SHORT) = out.res.magnitude
              /\ out.res.sign \in {0, 1}
              /\ out.value = IF out.res.sign = 1 THEN FQ - out.res.magnitude
                             ELSE out.res.magnitude

\* The scalar FQ - 1, whose windows are not all H - 1, has been witnessed.
ScalarFixedWitness ==
    /\ out.op = "witness_scalar_fixed"
    /\ out.value = FQ - 1
    /\ RecomposeWindows(out.res.k_bits, NUM_WINDOWS) = FQ - 1
    /\ \E w \in 1 .. NUM_WINDOWS : out.res.k_bits[w] # H - 1

-----------------------------------------------------------------------------
(* The regions of the instructions.  Every instruction assigns one region, *)
(* from offset 0, in the columns its gate of EccChip::configure reads.  A  *)
(* region is the cells it assigns, in the order of assignment, and the      *)
(* selectors it enables, both by <<column, offset>>.                        *)

\* i |-> <<column, i - 1>> for the offsets 0 .. rows - 1 of one column.
ColumnCells(column, rows) == [i \in 1 .. rows |-> <<column, i - 1>>]

\* The columns of EccConfig that the rows of each gate assign.
PointColumns == <<"P.0", "P.1">>
SumColumns == <<"A.0", "A.1">>
CompleteColumns ==
    <<"lambda.0", "add_complete_bool[0]", "add_complete_bool[1]", "add_complete_bool[2]",
      "add_complete_bool[3]", "add_complete_inv[0]", "add_complete_inv[1]",
      "add_complete_inv[2]", "add_complete_inv[3]">>
MulColumns == <<"bits", "A.0", "P.0", "P.1", "lambda.0", "lambda.1">>
MulFixedColumns == <<"bits", "u", "P.0", "P.1", "A.0", "A.1", "fixed_z">>

\* The cells of the given columns at one offset.
RowCells(columns, offset) == [i \in 1 .. Len(columns) |-> <<columns[i], offset>>]

\* The cells of the given columns at the offsets 0 .. rows - 1, row by row.
RECURSIVE RowsCells(_, _)
RowsCells(columns, rows) ==
    IF rows = 0 THEN <<>>
    ELSE RowsCells(columns, rows - 1) \o RowCells(columns, rows - 1)

Region(region_name, rows, cells, selectors) ==
    [name |-> region_name, rows |-> rows, cells |-> cells, selectors |-> selectors]

\* witness_point::assign_region: the point, under q_point.
witness_point_region(point) ==
    IF IsErr(point) THEN point
    ELSE Region("witness point", 1, RowCells(PointColumns, 0), {<<"q_point", 0>>})

\* witness_scalar_var::assign_region: one row for each bit, under q_scalar_var.
witness_scalar_var_region(scalar_var) ==
    Region("witness scalar for variable-base mul", Len(scalar_var.k_bits),
           ColumnCells("bits", Len(scalar_var.k_bits)),
           {<<"q_scalar_var", i>> : i \in 0 .. Len(scalar_var.k_bits) - 1})

\* witness_scalar_fixed::assign_region: one row for each window.
witness_scalar_fixed_region(scalar_fixed) ==
    Region("witness scalar for fixed-base mul", Len(scalar_fixed.k_bits),
           ColumnCells("bits", Len(scalar_fixed.k_bits)),
           {<<"q_scalar_fixed", i>> : i \in 0 .. Len(scalar_fixed.k_bits) - 1})

\* witness_scalar_fixed_short::assign_region: one row for each window of the
\* magnitude, and the sign cell after them.
witness_scalar_fixed_short_region(scalar_fixed_short) ==
    IF IsErr(scalar_fixed_short) THEN scalar_fixed_short
    ELSE Region("witness scalar for fixed-base mul", Len(scalar_fixed_short.k_bits) + 1,
                ColumnCells("bits", Len(scalar_fixed_short.k_bits) + 1),
                {<<"q_scalar_fixed_short", i>> :
                     i \in 0 .. Len(scalar_fixed_short.k_bits) - 1})

\* double::assign_region: the operand in P and the result in A, on one row.
double_region(point) ==
    IF IsErr(point) THEN point
    ELSE Region("point doubling", 1,
                RowCells(PointColumns, 0) \o RowCells(SumColumns, 0), {<<"q_double", 0>>})

\* add::assign_region: P and Q on the row of q_add, the sum in A on the next.
add_region(point) ==
    IF IsErr(point) THEN point
    ELSE Region("point addition", 2,
                RowCells(PointColumns, 0) \o RowCells(SumColumns, 0)
                    \o RowCells(SumColumns, 1),
                {<<"q_add", 0>>})

\* add_complete::assign_region: as add, with the slope, the indicators and
\* the inverses on the row of q_add_complete.
add_complete_region(point) ==
    IF IsErr(point) THEN point
    ELSE Region("point addition", 2,
                RowCells(PointColumns, 0) \o RowCells(SumColumns, 0)
                    \o RowCells(CompleteColumns, 0) \o RowCells(SumColumns, 1),
                {<<"q_add_complete", 0>>})

\* mul::assign_region: one row of the ladder for every bit but the last,
\* under q_mul where the gate's next row is a row of the ladder, and a last
\* row with k_0, the base and the result.  Nothing is assigned when a slope
\* does not exist.
mul_region(scalar_var, point) ==
    IF IsErr(point) THEN point
    ELSE LET n == Len(scalar_var.k_bits)
         IN  Region("variable-base mul", n,
                    RowsCells(MulColumns, n - 1)
                        \o <<<<"bits", n - 1>>>> \o RowCells(PointColumns, n - 1)
                        \o RowCells(SumColumns, n - 1),
                    {<<"q_mul", i>> : i \in 0 .. n - 3})

\* mul_fixed::assign_region: one row for each window, under q_mul_fixed.
mul_fixed_region(scalar_fixed, point) ==
    IF IsErr(point) THEN point
    ELSE LET n == Len(scalar_fixed.k_bits)
         IN  Region("Multiply", n, RowsCells(MulFixedColumns, n),
                    {<<"q_mul_fixed", i>> : i \in 0 .. n - 1})

\* mul_fixed_short::assign_region: the rows of mul_fixed over the windows of
\* the magnitude, and a last row with the sign (bits), y_a (A.1) and the
\* result (P), under q_mul_fixed_short.
mul_fixed_short_region(scalar_fixed_short, point) ==
    IF IsErr(point) THEN point
    ELSE LET n == Len(scalar_fixed_short.k_bits)
         IN  Region("Multiply", n + 1,
                    RowsCells(MulFixedColumns, n)
                        \o <<<<"bits", n>>>> \o RowCells(SumColumns, n)
                        \o RowCells(PointColumns, n),
                    {<<"q_mul_fixed", i>> : i \in 0 .. n - 1}
                        \cup {<<"q_mul_fixed_short", n>>})

-----------------------------------------------------------------------------
(* The layouter (layouter::SingleChip) that the instructions assign their   *)
(* regions through.                                                         *)

\* layouter::SingleChip::new: no region yet.
EmptyGrid == [regions |-> <<>>, writes |-> <<>>, selectors |-> {}, error |-> FALSE]

\* The columns a region assigns cells in.
RegionColumns(region) == {region.cells[i][1] : i \in 1 .. Len(region.cells)}

\* The first row after the rows that the regions laid out so far use in the
\* given column.
ColumnEnd(g, column) ==
    LET ends == {g.regions[i].start + g.regions[i].rows :
                     i \in {j \in 1 .. Len(g.regions) : column \in g.regions[j].columns}}
    IN  IF ends = {} THEN 0 ELSE CHOOSE e \in ends : \A f \in ends : f <= e

\* The layouter's placement: "the earliest row for which none of the columns
\* are in use".
RegionStart(g, region) ==
    LET starts == {ColumnEnd(g, column) : column \in RegionColumns(region)}
    IN  IF starts = {} THEN 0 ELSE CHOOSE e \in starts : \A f \in starts : f <= e

\* The grid after a region has been laid out from the row start.
PlaceRegion(g, region, start) ==
    [regions |-> Append(g.regions, [name |-> region.name, start |-> start,
                                    rows |-> region.rows,
                                    columns |-> RegionColumns(region)]),
     writes |-> g.writes \o [i \in 1 .. Len(region.cells) |->
                                <<region.cells[i][1], start + region.cells[i][2]>>],
     selectors |-> g.selectors \cup {<<sel[1], start + sel[2]>> : sel \in region.selectors},
     error |-> FALSE]

\* assign_region laying every region out from row 0 of the grid.
assign_region_at_offset(g, region) ==
    IF IsErr(region) THEN [g EXCEPT !.error = TRUE]
    ELSE PlaceRegion(g, region, 0)

\* layouter.assign_region(|| name, |mut region| ...::assign_region(.., 0, &mut
\* region, config.clone()))?: the offset 0 is relative to the start the
\* layouter gives the region; an instruction that fails assigns no region and
\* ends the synthesis.
assign_region(g, region) ==
    IF IsErr(region) THEN [g EXCEPT !.error = TRUE]
    ELSE PlaceRegion(g, region, RegionStart(g, region))

\* The regions of witness_scalar_var(value) and of mul by that scalar of the
\* point G, in a new layouter.
mul_synthesis(value) ==
    LET scalar_var == witness_scalar_var(value)
        point == witness_point(GeneratorG)
    IN  assign_region(
            assign_region(EmptyGrid, witness_scalar_var_region(scalar_var)),
            mul_region(scalar_var, mul(scalar_var, point)))

-----------------------------------------------------------------------------
(* The layout of a synthesis: the instructions, by the regions they assign. *)

\* At most MaxRegions regions are laid out in one layouter.
MaxRegions == 3

\* The regions of the instructions of tests::MyCircuit::synthesize, and of
\* instructions that fail.
SampleRegions ==
    LET point == witness_point(GeneratorG)
        doubled == double(point)
        scalar_var == witness_scalar_var(5)
        scalar_zero == witness_scalar_var(0)
        scalar_fixed == witness_scalar_fixed(5)
        scalar_fixed_short == witness_scalar_fixed_short(FQ - 5)
        nullifier_k == get_fixed(load, "NullifierK").res
        value_commit_v == get_fixed(load, "ValueCommitV").res
    IN  {witness_point_region(point),
         witness_point_region(witness_point(Pt(7, 32))),
         double_region(doubled),
         add_region(add(point, doubled)),
         add_region(add(point, point)),
         add_complete_region(add_complete(point, point)),
         witness_scalar_var_region(scalar_var),
         mul_region(scalar_var, mul(scalar_var, point)),
         mul_region(scalar_zero, mul(scalar_zero, point)),
         witness_scalar_fixed_region(scalar_fixed),
         witness_scalar_fixed_short_region(scalar_fixed_short),
         witness_scalar_fixed_short_region(witness_scalar_fixed_short(2 ^ ShortBits)),
         mul_fixed_region(scalar_fixed, mul_fixed(scalar_fixed, nullifier_k)),
         mul_fixed_short_region(scalar_fixed_short,
                                mul_fixed_short(scalar_fixed_short, value_commit_v))}

\* let mut layouter = layouter::SingleChip::new(cs, config.clone())?;
NewLayouter ==
    /\ grid = Null
    /\ grid' = EmptyGrid
    /\ out' = [op |-> "new"]
    /\ UNCHANGED <<duplex, builder, bundle, loaded, a, b, scalar, fixed, firstFixed, kept>>

\* One instruction: layouter.assign_region(..)?
AssignRegion(region) ==
    /\ grid # Null /\ ~grid.error
    /\ Len(grid.regions) < MaxRegions
    /\ grid' = assign_region(grid, region)
    /\ out' = [op |-> "assign_region", region |-> region]
    /\ UNCHANGED <<duplex, builder, bundle, loaded, a, b, scalar, fixed, firstFixed, kept>>

\* The scalars whose synthesis is compared with that of every other.
ComparedScalars == {0, 1, 2, FQ - 1, None}

\* witness_scalar_var and mul, for two scalars, each in a layouter of its own.
SynthesizeMul(k, k2) ==
    /\ grid = Null /\ out = NoOut
    /\ out' = [op |-> "mul_synthesis", k |-> k, k2 |-> k2,
               first |-> mul_synthesis(k), second |-> mul_synthesis(k2)]
    /\ UNCHANGED <<duplex, grid, builder, bundle, loaded, a, b, scalar, fixed, firstFixed, kept>>

NextLayout ==
    \/ NewLayouter
    \/ \E region \in SampleRegions : AssignRegion(region)
    \/ \E k \in ComparedScalars, k2 \in ScalarValues : SynthesizeMul(k, k2)

SpecLayout == Init /\ [][NextLayout]_vars

MulLayoutIgnoresScalarInside ==
    (out.op = "mul_synthesis" /\ out.k \notin {0, FQ - 1} /\ out.k2 \notin {0, FQ - 1})
        => out.first = out.second

\* No cell is written twice.
NoDuplicates(writes) ==
    Cardinality({writes[i] : i \in 1 .. Len(writes)}) = Len(writes)

-----------------------------------------------------------------------------
(* Keys, values and notes, as the bundle builder uses them. *)

\* Result::Ok(v) and the unit value ().
Ok(v) == [ok |-> v]
Unit == [unit |-> TRUE]

\* The base of the spend authorization keys.
SpendAuthG == GeneratorG

\* SpendValidatingKey::from(&ask): ak = [ask]G, for the scalar ask of a
\* SpendAuthorizingKey.
SpendValidatingKey(ask) == MultG(ask)

\* FullViewingKey: the builder reads its ak only (fvk.into()).
FullViewingKey(ask) == [ak |-> SpendValidatingKey(ask)]

\* FullViewingKey::default_address
default_address(fvk) == [pk_d |-> fvk.ak]

\* Width of a NoteValue (an unsigned integer); a ValueSum is a signed integer
\* of the same width.
VALUE_BITS == 3
NoteValueMax == 2 ^ VALUE_BITS - 1
ValueSumMin == 0 - 2 ^ (VALUE_BITS - 1)
ValueSumMax == 2 ^ (VALUE_BITS - 1) - 1

\* NoteValue::default() and ValueSum::default()
NoteValueDefault == 0
ValueSumDefault == 0

OverflowError == Err("OverflowError")

\* NoteValue - NoteValue: both are converted to the signed type first.
NoteValueSub(v, w) ==
    IF v > ValueSumMax \/ w > ValueSumMax THEN OverflowError ELSE Ok(v - w)

\* ValueSum + ValueSum, checked.
ValueSumAdd(v, w) ==
    IF v + w < ValueSumMin \/ v + w > ValueSumMax THEN OverflowError ELSE Ok(v + w)

\* Note::new(recipient, value, rho, rng), Note::value, Note::nullifier and
\* Note::commitment: a nullifier binds the note and the key, a commitment the
\* note.
Note(recipient, value, rho, rseed) ==
    [recipient |-> recipient, value |-> value, rho |-> rho, rseed |-> rseed]
nullifier(note, fvk) == [nf |-> <<note.rho, note.rseed, note.value, fvk.ak>>]
commitment(note) == [cm |-> note]

\* A MerklePath, by the root it leads to from the commitment of the note
\* it is given with (merkle_path.root(cm)).
MerklePath(root) == [root |-> root]

-----------------------------------------------------------------------------
(* Builder (builder.rs). *)

MIN_ACTIONS == 2

SpendInfo(fvk, note, merkle_path) ==
    [fvk |-> fvk, note |-> note, merkle_path |-> merkle_path]

RecipientInfo(ovk, recipient, value, memo) ==
    [ovk |-> ovk, recipient |-> recipient, value |-> value, memo |-> memo]

\* Builder::new
Builder_new(flags, anchor) ==
    [spends |-> <<>>, recipients |-> <<>>, flags |-> flags, anchor |-> anchor]

\* Builder::add_spend: the comparison of the path's root with the anchor is
\* commented out; the spend is pushed and Ok(()) returned.
add_spend(self, fvk, note, merkle_path) ==
    [self |-> [self EXCEPT !.spends = Append(@, SpendInfo(fvk, note, merkle_path))],
     res |-> Ok(Unit)]

\* Builder::add_recipient
add_recipient(self, ovk, recipient, value, memo) ==
    [self EXCEPT !.recipients = Append(@, RecipientInfo(ovk, recipient, value, memo))]

-----------------------------------------------------------------------------
(* The builder's callers. *)

\* Spends and recipients added to one builder.
MaxInputs == 2

SigningKeys == {1, 2}
Anchors == {0, 1}
AllFlags == {[spends_enabled |-> TRUE, outputs_enabled |-> TRUE]}

\* Notes to spend: the key that controls the note, its value, and the root
\* its Merkle path leads to.
SampleSpends ==
    {[ask |-> 1, value |-> 3, root |-> 0],
     [ask |-> 2, value |-> 3, root |-> 0],
     [ask |-> 1, value |-> 0, root |-> 1],
     [ask |-> 2, value |-> NoteValueMax, root |-> 0]}

SpentNote(s) ==
    Note(default_address(FullViewingKey(s.ask)), s.value, s.ask, s.root)

\* Recipients: the key of the receiving address, and the value.
SampleRecipients == {[ask |-> 1, value |-> 3], [ask |-> 2, value |-> 0]}

NewBuilder(flags, anchor) ==
    /\ builder = Null
    /\ bundle = Null
    /\ out = NoOut
    /\ builder' = Builder_new(flags, anchor)
    /\ out' = [op |-> "new"]
    /\ UNCHANGED <<duplex, loaded, a, b, scalar, fixed, firstFixed, kept, grid, bundle>>

AddSpend(s) ==
    /\ builder # Null
    /\ Len(builder.spends) < MaxInputs
    /\ LET r == add_spend(builder, FullViewingKey(s.ask), SpentNote(s),
                          MerklePath(s.root))
       IN  /\ builder' = r.self
           /\ out' = [op |-> "add_spend", merkle_path |-> MerklePath(s.root),
                      before |-> builder, res |-> r.res]
    /\ UNCHANGED <<duplex, loaded, a, b, scalar, fixed, firstFixed, kept, grid, bundle>>

AddRecipient(r) ==
    /\ builder # Null
    /\ Len(builder.recipients) < MaxInputs
    /\ builder' = add_recipient(builder, None, default_address(FullViewingKey(r.ask)),
                                r.value, None)
    /\ out' = [op |-> "add_recipient"]
    /\ UNCHANGED <<duplex, loaded, a, b, scalar, fixed, firstFixed, kept, grid, bundle>>


-----------------------------------------------------------------------------
(* Value commitments and the binding key (crate::value, redpallas). *)

ValueCommitV == generator("ValueCommitV")
ValueCommitR == generator("ValueCommitR")

\* ValueCommitment::derive(value, rcv) = [value]V + [rcv]R, the value being
\* taken in the scalar field.
ValueCommitment_derive(value, rcv) ==
    CurveAdd(CurveMul(value % FQ, ValueCommitV), CurveMul(rcv % FQ, ValueCommitR))

\* ValueCommitTrapdoor::zero() and the sum of trapdoors.
ValueCommitTrapdoor_zero == 0
RECURSIVE SumTrapdoors(_)
SumTrapdoors(rcvs) ==
    IF rcvs = <<>> THEN ValueCommitTrapdoor_zero
    ELSE (Head(rcvs) + SumTrapdoors(Tail(rcvs))) % FQ

\* The sum of value commitments.
RECURSIVE SumCommitments(_)
SumCommitments(cvs) ==
    IF cvs = <<>> THEN Identity ELSE CurveAdd(Head(cvs), SumCommitments(Tail(cvs)))

\* ValueCommitment - ValueCommitment
ValueCommitment_sub(cv, cw) == CurveAdd(cv, CurveNeg(cw))

\* ValueCommitTrapdoor::into_bsk, ValueCommitment::into_bvk and
\* redpallas::VerificationKey::from(&bsk): the binding key's base is R.
into_bsk(rcv) == rcv
into_bvk(cv) == cv
VerificationKey_from(bsk) == CurveMul(bsk, ValueCommitR)

\* SpendValidatingKey::randomize(&alpha): rk = ak + [alpha]G
randomize(ak, alpha) == CurveAdd(ak, CurveMul(alpha % FQ, SpendAuthG))

\* A random number generator, by its seed: its n-th draw (n = 0, 1, ...).
RngDraw(rng, n) == (rng * (n + 1) + n * n) % FQ

\* A panic of the thread, with its message.
Panic(msg) == [panic |-> msg]
IsPanic(r) == "panic" \in DOMAIN r
IsOk(r) == "ok" \in DOMAIN r

-----------------------------------------------------------------------------
(* Builder::build (builder.rs) and the bundle it makes (bundle.rs). *)

\* MerklePath::dummy (tree.rs): todo!()
MerklePath_dummy == Panic("not yet implemented")

\* SpendInfo::dummy: Note::dummy, then MerklePath::dummy.
SpendInfo_dummy == MerklePath_dummy

\* RecipientInfo::dummy: the default address of a random spending key, and
\* the default value.
RecipientInfo_dummy(sk) ==
    RecipientInfo(None, default_address(FullViewingKey(sk)), NoteValueDefault, None)

\* ActionInfo::new
ActionInfo_new(spend, output, rcv) == [spend |-> spend, output |-> output, rcv |-> rcv]

\* ActionInfo::value_sum
value_sum(self) == NoteValueSub(self.spend.note.value, self.output.value)

\* Action::from_parts
Action_from_parts(nf_old, rk, cm_new, encrypted_note, cv_net, authorization) ==
    [nf_old |-> nf_old, rk |-> rk, cm_new |-> cm_new,
     encrypted_note |-> encrypted_note, cv_net |-> cv_net,
     authorization |-> authorization]

EncryptedNote == [encrypted_note |-> TRUE]

\* ActionInfo::build: alpha and the new note's seed are drawn from the rng;
\* value_sum().expect(..) panics on an error.
ActionInfo_build(self, alpha, rseed) ==
    IF IsErr(value_sum(self)) THEN Panic("already checked this")
    ELSE
    LET v_net == value_sum(self).ok
        cv_net == ValueCommitment_derive(v_net, self.rcv)
        nf_old == nullifier(self.spend.note, self.spend.fvk)
        ak == self.spend.fvk.ak
        rk == randomize(ak, alpha)
        note == Note(self.output.recipient, self.output.value, nf_old, rseed)
        cm_new == commitment(note)
    IN  Action_from_parts(nf_old, rk, cm_new, EncryptedNote, cv_net, ak)

\* Bundle::from_parts
Bundle_from_parts(actions, flags, value_balance, anchor, authorization) ==
    [actions |-> actions, flags |-> flags, value_balance |-> value_balance,
     anchor |-> anchor, authorization |-> authorization]

\* Action::to_instance
to_instance(action, flags, anchor) ==
    [anchor |-> anchor, cv_net |-> action.cv_net, nf_old |-> action.nf_old,
     rk |-> action.rk, cmx |-> action.cm_new,
     enable_spend |-> flags.spends_enabled, enable_output |-> flags.outputs_enabled]

\* Proof::create(pk, &circuits, &instances)
Proof_create(pk, instances) == Ok([proof |-> instances])

Unauthorized(proof, bsk) == [type |-> "Unauthorized", proof |-> proof, bsk |-> bsk]

Max(x, y) == IF x >= y THEN x ELSE y

\* The number of actions of a bundle.
NumActions(num_spends, num_recipients) ==
    Max(Max(num_spends, num_recipients), MIN_ACTIONS)

\* The fold of the value sums, an error ending it.
RECURSIVE SumValues(_, _)
SumValues(acc, pre_actions) ==
    IF pre_actions = <<>> \/ IsErr(acc) THEN acc
    ELSE LET v == value_sum(Head(pre_actions))
         IN  IF IsErr(v) THEN v
             ELSE SumValues(ValueSumAdd(acc.ok, v.ok), Tail(pre_actions))

\* The binding signing key, of the first trapdoor alone.
binding_signing_key_first(pre_actions) ==
    into_bsk(pre_actions[1].rcv)

\* The transaction binding signing key.
binding_signing_key(pre_actions) ==
    into_bsk(SumTrapdoors([i \in 1 .. Len(pre_actions) |-> pre_actions[i].rcv]))

\* The binding validating key, from the actions.
binding_validating_key(actions, value_balance) ==
    into_bvk(ValueCommitment_sub(
        SumCommitments([i \in 1 .. Len(actions) |-> actions[i].cv_net]),
        ValueCommitment_derive(value_balance, ValueCommitTrapdoor_zero)))

\* Builder::build.  The rng is drawn from once for each dummy recipient, once
\* for each ActionInfo, and twice for each action built.
build(self, rng, pk) ==
    LET num_spends == Len(self.spends)
        num_recipients == Len(self.recipients)
        num_actions == NumActions(num_spends, num_recipients)
        dummies == num_actions - num_recipients
    IN  IF num_actions - num_spends > 0 THEN SpendInfo_dummy
        ELSE
        LET recipients ==
                self.recipients \o
                [i \in 1 .. dummies |-> RecipientInfo_dummy(RngDraw(rng, i - 1))]
            pre_actions ==
                [i \in 1 .. num_actions |->
                    ActionInfo_new(self.spends[i], recipients[i],
                                   RngDraw(rng, dummies + i - 1))]
            value_balance == SumValues(Ok(ValueSumDefault), pre_actions)
        IN  IF IsErr(value_balance) THEN Err("ValueSum")
            ELSE
            LET bsk == binding_signing_key(pre_actions)
                drawn == dummies + num_actions
                actions ==
                    [i \in 1 .. num_actions |->
                        ActionInfo_build(pre_actions[i],
                                         RngDraw(rng, drawn + 2 * (i - 1)),
                                         RngDraw(rng, drawn + 2 * (i - 1) + 1))]
                bvk == binding_validating_key(actions, value_balance.ok)
            IN  IF \E i \in 1 .. num_actions : IsPanic(actions[i])
                THEN Panic("already checked this")
                ELSE IF VerificationKey_from(bsk) # bvk
                THEN Panic("assertion failed: bsk and bvk are consistent")
                ELSE
                LET instances ==
                        [i \in 1 .. num_actions |->
                            to_instance(actions[i], self.flags, self.anchor)]
                    proof == Proof_create(pk, instances)
                IN  IF IsErr(proof) THEN Err("Proof")
                    ELSE Ok(Bundle_from_parts(actions, self.flags, value_balance.ok,
                                              self.anchor,
                                              Unauthorized(proof.ok, bsk)))

\* Seeds of the random number generators.
Seeds == {1, 2}

ProvingKey == [pk |-> TRUE]

Build(rng) ==
    /\ builder # Null
    /\ LET r == build(builder, rng, ProvingKey)
       IN  /\ bundle' = IF IsOk(r) THEN r.ok ELSE Null
           /\ out' = [op |-> "build", before |-> builder, rng |-> rng, res |-> r]
    /\ builder' = Null
    /\ UNCHANGED <<duplex, loaded, a, b, scalar, fixed, firstFixed, kept, grid>>

-----------------------------------------------------------------------------
(* Authorization of a bundle (builder.rs 292-394, bundle.rs 76-192).        *)

\* redpallas::SigningKey::sign(rng, msg): a signature, by the key that made
\* it and the message it is over.
SigningKey_sign(sk, rng, msg) == [signer |-> sk, msg |-> msg]

\* Option::<Signature>::None
NoSignature == [none |-> TRUE]

PartiallyAuthorized(proof, binding_signature, sighash) ==
    [type |-> "PartiallyAuthorized", proof |-> proof,
     binding_signature |-> binding_signature, sighash |-> sighash]

Authorized(proof, binding_signature) ==
    [type |-> "Authorized", proof |-> proof, binding_signature |-> binding_signature]

\* Action::map: the action with the authorization its step returns.
Action_map(self, authorization) ==
    [nf_old |-> self.nf_old, rk |-> self.rk, cm_new |-> self.cm_new,
     encrypted_note |-> self.encrypted_note, cv_net |-> self.cv_net,
     authorization |-> authorization]

\* Action::try_map: the error of its step, or the action with the
\* authorization the step returns.
Action_try_map(self, authorization) ==
    IF IsErr(authorization) THEN authorization
    ELSE Ok([nf_old |-> self.nf_old, rk |-> self.rk, cm_new |-> self.cm_new,
             encrypted_note |-> self.encrypted_note, cv_net |-> self.cv_net,
             authorization |-> authorization.ok])

\* Bundle::map: spend_auth[i] is what the closure spend_auth returns for the
\* i-th action, step what the closure step returns for the authorization.
Bundle_map(self, spend_auth, step) ==
    [actions |-> [i \in 1 .. Len(self.actions) |->
                     Action_map(self.actions[i], spend_auth[i])],
     flags |-> self.flags,
     value_balance |-> self.value_balance,
     anchor |-> self.anchor,
     authorization |-> step]

\* Bundle::try_map, with the results of the two closures: the first error of
\* the actions is returned, then the error of the step.
Bundle_try_map(self, spend_auth, step) ==
    LET results == [i \in 1 .. Len(self.actions) |->
                       Action_try_map(self.actions[i], spend_auth[i])]
        failed == {i \in 1 .. Len(results) : IsErr(results[i])}
    IN  IF failed # {} THEN results[CHOOSE i \in failed : \A j \in failed : i <= j]
        ELSE IF results = <<>> THEN Panic("called Option::unwrap() on a None value")
        ELSE IF IsErr(step) THEN step
        ELSE Ok([actions |-> [i \in 1 .. Len(results) |-> results[i].ok],
                 flags |-> self.flags,
                 value_balance |-> self.value_balance,
                 anchor |-> self.anchor,
                 authorization |-> step.ok])

\* The authorizations of the actions of a bundle.
SpendAuths(self) == [i \in 1 .. Len(self.actions) |-> self.actions[i].authorization]

\* The default sighash.
ZeroSighash == 0

\* prepare, with the binding signature over the default sighash.
prepare_default_sighash(self, rng, sighash) ==
    LET unauth == self.authorization
    IN  Bundle_map(self,
            [i \in 1 .. Len(self.actions) |-> <<NoSignature, SpendAuths(self)[i]>>],
            PartiallyAuthorized(unauth.proof,
                                SigningKey_sign(unauth.bsk, rng, ZeroSighash), sighash))

\* Bundle<Unauthorized>::prepare
prepare(self, rng, sighash) ==
    LET unauth == self.authorization
    IN  Bundle_map(self,
            [i \in 1 .. Len(self.actions) |-> <<NoSignature, SpendAuths(self)[i]>>],
            PartiallyAuthorized(unauth.proof,
                                SigningKey_sign(unauth.bsk, rng, sighash), sighash))

\* Option::or_else
or_else(option, other) == IF option = NoSignature THEN other ELSE option

\* sign, without the comparison of the keys.
sign_every_action(self, rng, ask) ==
    LET partial == self.authorization
    IN  Bundle_map(self,
            [i \in 1 .. Len(self.actions) |->
                <<or_else(SpendAuths(self)[i][1],
                          Some(SigningKey_sign(ask, rng, partial.sighash))),
                  SpendAuths(self)[i][2]>>],
            partial)

\* Bundle<PartiallyAuthorized>::sign
sign(self, rng, ask) ==
    LET expected_ak == SpendValidatingKey(ask)
        partial == self.authorization
    IN  Bundle_map(self,
            [i \in 1 .. Len(self.actions) |->
                <<or_else(SpendAuths(self)[i][1],
                          IF SpendAuths(self)[i][2] = expected_ak
                          THEN Some(SigningKey_sign(ask, rng, partial.sighash))
                          ELSE NoSignature),
                  SpendAuths(self)[i][2]>>],
            partial)

\* finalize, with the actions that have no signature left out.
finalize_signed_actions(self) ==
    LET partial == self.authorization
        signed == [self EXCEPT !.actions =
                      SelectSeq(@, LAMBDA action : action.authorization[1] # NoSignature)]
    IN  Bundle_try_map(signed,
            [i \in 1 .. Len(signed.actions) |-> Ok(SpendAuths(signed)[i][1].some)],
            Ok(Authorized(partial.proof, partial.binding_signature)))

\* Bundle<PartiallyAuthorized>::finalize
finalize(self) ==
    LET partial == self.authorization
    IN  Bundle_try_map(self,
            [i \in 1 .. Len(self.actions) |->
                IF SpendAuths(self)[i][1] # NoSignature
                THEN Ok(SpendAuths(self)[i][1].some)
                ELSE Err("MissingSignatures")],
            Ok(Authorized(partial.proof, partial.binding_signature)))

\* signing_keys.iter().fold(init, |partial, ask| partial.sign(rng, ask))
RECURSIVE FoldSign(_, _, _)
FoldSign(partial, rng, signing_keys) ==
    IF signing_keys = <<>> THEN partial
    ELSE FoldSign(sign(partial, rng, Head(signing_keys)), rng, Tail(signing_keys))

\* Bundle<Unauthorized>::apply_signatures
apply_signatures(self, rng, sighash, signing_keys) ==
    finalize(FoldSign(prepare(self, rng, sighash), rng, signing_keys))

Sighashes == {1, 2}

\* The slices of signing keys given to apply_signatures.
KeySlices ==
    {<<>>} \cup {<<k>> : k \in SigningKeys}
           \cup {ks \in SigningKeys \X SigningKeys : ks[1] # ks[2]}

IsBundle(type) == bundle # Null /\ bundle.authorization.type = type

Prepare(rng, sighash) ==
    /\ IsBundle("Unauthorized")
    /\ bundle' = prepare(bundle, rng, sighash)
    /\ out' = [op |-> "prepare", before |-> bundle, sighash |-> sighash]
    /\ UNCHANGED <<duplex, loaded, a, b, scalar, fixed, firstFixed, kept, grid, builder>>

\* out.sighash stays the sighash that prepare was given.
Sign(rng, ask) ==
    /\ IsBundle("PartiallyAuthorized")
    /\ bundle' = sign(bundle, rng, ask)
    /\ out' = [op |-> "sign", before |-> bundle, sighash |-> out.sighash,
               ask |-> ask]
    /\ UNCHANGED <<duplex, loaded, a, b, scalar, fixed, firstFixed, kept, grid, builder>>

Finalize ==
    /\ IsBundle("PartiallyAuthorized")
    /\ LET r == finalize(bundle)
       IN  /\ bundle' = IF IsOk(r) THEN r.ok ELSE Null
           /\ out' = [op |-> "finalize", before |-> bundle, sighash |-> out.sighash,
                      res |-> r]
    /\ UNCHANGED <<duplex, loaded, a, b, scalar, fixed, firstFixed, kept, grid, builder>>

ApplySignatures(rng, sighash, signing_keys) ==
    /\ IsBundle("Unauthorized")
    /\ LET r == apply_signatures(bundle, rng, sighash, signing_keys)
       IN  /\ bundle' = IF IsOk(r) THEN r.ok ELSE Null
           /\ out' = [op |-> "apply_signatures", before |-> bundle,
                      sighash |-> sighash, signing_keys |-> signing_keys, res |-> r]
    /\ UNCHANGED <<duplex, loaded, a, b, scalar, fixed, firstFixed, kept, grid, builder>>

NextBuilder ==
    \/ \E flags \in AllFlags, anchor \in Anchors : NewBuilder(flags, anchor)
    \/ \E s \in SampleSpends : AddSpend(s)
    \/ \E r \in SampleRecipients : AddRecipient(r)
    \/ \E rng \in Seeds : Build(rng)
    \/ \E rng \in Seeds, sighash \in Sighashes : Prepare(rng, sighash)
    \/ \E rng \in Seeds, ask \in SigningKeys : Sign(rng, ask)
    \/ Finalize
    \/ \E rng \in Seeds, sighash \in Sighashes, signing_keys \in KeySlices :
           ApplySignatures(rng, sighash, signing_keys)

SpecBuilder == Init /\ [][NextBuilder]_vars

\* C13: add_spend returns an error whenever the Merkle path does not lead to
\* the builder's anchor, and then the spend is not added to the builder.
AddSpendChecksAnchor ==
    (out.op = "add_spend" /\ out.merkle_path.root # out.before.anchor) =>
        /\ IsErr(out.res)
        /\ builder = out.before

\* The fields of an action that no authorization step touches.
SameEffects(action, other) ==
    /\ action.nf_old = other.nf_old
    /\ action.rk = other.rk
    /\ action.cm_new = other.cm_new
    /\ action.encrypted_note = other.encrypted_note
    /\ action.cv_net = other.cv_net

\* Some action of the bundle has no spend authorization signature.
MissingSignature(partial) ==
    \E i \in 1 .. Len(partial.actions) :
        partial.actions[i].authorization[1] = NoSignature

\* C14: finalize returns Err(MissingSignatures) if some action has no
\* signature; otherwise it returns an authorized bundle in which every action
\* carries the signature it had, with the proof and the binding signature of
\* the partially authorized bundle.
FinalizeNeedsAllSignatures ==
    (out.op = "finalize") =>
        IF MissingSignature(out.before)
        THEN out.res = Err("MissingSignatures") /\ bundle = Null
        ELSE /\ IsOk(out.res)
             /\ bundle = out.res.ok
             /\ bundle.authorization =
                    Authorized(out.before.authorization.proof,
                               out.before.authorization.binding_signature)
             /\ Len(bundle.actions) = Len(out.before.actions)
             /\ \A i \in 1 .. Len(bundle.actions) :
                    /\ Some(bundle.actions[i].authorization) =
                           out.before.actions[i].authorization[1]
                    /\ SameEffects(bundle.actions[i], out.before.actions[i])

\* A bundle signed by the two keys that control its notes has been finalized.
FinalizeWitness ==
    /\ out.op = "finalize"
    /\ IsOk(out.res)
    /\ \E i, j \in 1 .. Len(bundle.actions) :
           bundle.actions[i].authorization.signer # bundle.actions[j].authorization.signer

\* A bundle with a signed and an unsigned action has been refused.
FinalizeRefusedWitness ==
    /\ out.op = "finalize"
    /\ IsErr(out.res)
    /\ \E i \in 1 .. Len(out.before.actions) :
           out.before.actions[i].authorization[1] # NoSignature

\* C15: after sign(ask) every action whose ak is the key derived from ask
\* holds a signature, and no action with another ak has gained one.
SignSignsOwnActions ==
    (out.op = "sign") =>
        /\ Len(bundle.actions) = Len(out.before.actions)
        /\ \A i \in 1 .. Len(bundle.actions) :
               LET was == out.before.actions[i].authorization
                   is == bundle.actions[i].authorization
               IN  /\ is[2] = was[2]
                   /\ was[2] = SpendValidatingKey(out.ask) => is[1] # NoSignature
                   /\ was[2] # SpendValidatingKey(out.ask) => is[1] = was[1]

\* sign has signed an action and has left another, of another key, unsigned.
SignWitness ==
    /\ out.op = "sign"
    /\ \E i, j \in 1 .. Len(bundle.actions) :
           /\ out.before.actions[i].authorization[1] = NoSignature
           /\ bundle.actions[i].authorization[1] # NoSignature
           /\ bundle.actions[j].authorization[2] # SpendValidatingKey(out.ask)
           /\ bundle.actions[j].authorization[1] = NoSignature

\* The messages of the signatures of a bundle.
SignedMessages(bd) ==
    {bd.authorization.binding_signature.msg} \cup
    IF bd.authorization.type = "Authorized"
    THEN {bd.actions[i].authorization.msg : i \in 1 .. Len(bd.actions)}
    ELSE {bd.actions[i].authorization[1].some.msg :
              i \in {j \in 1 .. Len(bd.actions) :
                         bd.actions[j].authorization[1] # NoSignature}}

\* C16: in every bundle reached from prepare(sighash) by sign calls and
\* finalize, and in the bundle of apply_signatures(sighash), the binding
\* signature and every spend authorization signature are over that sighash.
OneSighash ==
    (bundle # Null /\ bundle.authorization.type # "Unauthorized") =>
        /\ SignedMessages(bundle) = {out.sighash}
        /\ bundle.authorization.type = "PartiallyAuthorized" =>
               bundle.authorization.sighash = out.sighash

\* A bundle holds its binding signature and the signatures of two keys.
OneSighashWitness ==
    /\ bundle # Null
    /\ bundle.authorization.type = "PartiallyAuthorized"
    /\ out.op = "sign"
    /\ ~MissingSignature(bundle)
    /\ \E i, j \in 1 .. Len(bundle.actions) :
           bundle.actions[i].authorization[1].some.signer #
               bundle.actions[j].authorization[1].some.signer

\* apply_signatures has returned an authorized bundle.
ApplySignaturesWitness ==
    /\ out.op = "apply_signatures"
    /\ IsOk(out.res)
    /\ Len(out.signing_keys) = 2

\* The i-th action of a bundle is made of the i-th spend and the i-th
\* recipient of the builder, a dummy recipient standing for a missing one.
PairsInputs(action, self, i) ==
    /\ i <= Len(self.spends)
    /\ action.nf_old = nullifier(self.spends[i].note, self.spends[i].fvk)
    /\ action.authorization = self.spends[i].fvk.ak
    /\ action.cm_new.cm.rho = action.nf_old
    /\ IF i <= Len(self.recipients)
       THEN /\ action.cm_new.cm.recipient = self.recipients[i].recipient
            /\ action.cm_new.cm.value = self.recipients[i].value
       ELSE action.cm_new.cm.value = NoteValueDefault

\* C19: build produces max(spends, recipients, 2) actions, the i-th made of
\* the i-th spend and the i-th recipient, the shorter list extended with
\* dummies: unless the value sums overflow, build returns a bundle, of no
\* fewer than 2 actions.
BuildPairsInputs ==
    (out.op = "build" /\ ~IsErr(out.res)) =>
        /\ IsOk(out.res)
        /\ Len(out.res.ok.actions) =
               NumActions(Len(out.before.spends), Len(out.before.recipients))
        /\ Len(out.res.ok.actions) >= 2
        /\ \A i \in 1 .. Len(out.res.ok.actions) :
               PairsInputs(out.res.ok.actions[i], out.before, i)

\* The bundles that build does return are made as C19 says.
BuildPairsInputsWhenBuilt ==
    (out.op = "build" /\ IsOk(out.res)) =>
        /\ Len(out.res.ok.actions) =
               NumActions(Len(out.before.spends), Len(out.before.recipients))
        /\ Len(out.res.ok.actions) >= 2
        /\ \A i \in 1 .. Len(out.res.ok.actions) :
               PairsInputs(out.res.ok.actions[i], out.before, i)

\* build panics exactly when a dummy spend is needed.
BuildPanicsOnDummySpend ==
    (out.op = "build") =>
        (IsPanic(out.res) <=>
             Len(out.before.spends) <
                 NumActions(Len(out.before.spends), Len(out.before.recipients)))

\* C20: in build the assertion that the verification key of bsk equals bvk
\* never fails: no build ends in its panic, and the bsk of every bundle built
\* has the bvk of the bundle's actions and value balance as verification key.
BindingKeysAgree ==
    (out.op = "build") =>
        /\ out.res # Panic("assertion failed: bsk and bvk are consistent")
        /\ IsOk(out.res) =>
               VerificationKey_from(out.res.ok.authorization.bsk) =
                   binding_validating_key(out.res.ok.actions, out.res.ok.value_balance)

\* A bundle has been built of a spend whose value is received by nobody, with
\* a dummy recipient, and of another action.
BindingKeysWitness ==
    /\ out.op = "build"
    /\ IsOk(out.res)
    /\ out.res.ok.value_balance # 0
    /\ Len(out.before.recipients) < Len(out.res.ok.actions)
    /\ out.res.ok.authorization.bsk # 0

-----------------------------------------------------------------------------
(* The gates of EccChip::configure, on the cells of a row.                  *)

\* EccChip::configure: the columns of the chip, each by its index, and the
\* columns of its two permutations.
configure(bits, u, A, P, lambda, add_complete_bool, add_complete_inv) ==
    [bits |-> bits, u |-> u, A |-> A, P |-> P, lambda |-> lambda,
     add_complete_bool |-> add_complete_bool,
     add_complete_inv |-> add_complete_inv,
     perm_scalar |-> {bits},
     perm_sum |-> {P[1], P[2], A[1], A[2]}]

\* tests::MyCircuit::configure: the advice columns, numbered as they are
\* allocated; the four columns it calls add_complete_inv are given to
\* EccChip::configure before the four it calls add_complete_bool.
MyCircuit_configure ==
    LET bits == 0
        u == 1
        A == <<2, 3>>
        P == <<4, 5>>
        lambda == <<6, 7>>
        add_complete_inv == <<8, 9, 10, 11>>
        add_complete_bool == <<12, 13, 14, 15>>
    IN  configure(bits, u, A, P, lambda, add_complete_inv, add_complete_bool)

NumColumns == 16

\* The cells of a row and of the next, all 0.
EmptyCells == [rotation \in {"cur", "next"} |-> [column \in 0 .. NumColumns - 1 |-> 0]]

\* region.assign_advice
assign_advice(cells, column, rotation, value) ==
    [cells EXCEPT ![rotation][column] = value]

\* meta.query_advice(column, rotation)
query_advice(cells, column, rotation) == cells[rotation][column]

\* The cells the fixed-base short signed mul gate is given, with y_a read
\* from the column of x_a.
mul_fixed_short_queries_x(config, cells) ==
    [s |-> query_advice(cells, config.bits, "cur"),
     y_a |-> query_advice(cells, config.A[1], "cur"),
     y_p |-> query_advice(cells, config.P[2], "cur")]

\* The cells the fixed-base short signed mul gate is given.
mul_fixed_short_queries(config, cells) ==
    [s |-> query_advice(cells, config.bits, "cur"),
     y_a |-> query_advice(cells, config.A[2], "cur"),
     y_p |-> query_advice(cells, config.P[2], "cur")]

\* mul_fixed_short::create_gate: s (y_a + y_p) + (1 - s) (y_a - y_p), the
\* unsigned result in A and the signed one in P.
mul_fixed_short_create_gate(q_mul_fixed_short, s, y_a, y_p) ==
    <<FMul(q_mul_fixed_short,
           FAdd(FMul(s, FAdd(y_a, y_p)), FMul(FSub(1, s), FSub(y_a, y_p))))>>

\* The copy constraint of mul_fixed_short::assign_region: the x of the signed
\* result is the x of the unsigned one.
mul_fixed_short_copies(config) == {<<config.A[1], config.P[1]>>}

\* Every polynomial of a gate is 0.
AllZero(polys) == \A i \in 1 .. Len(polys) : polys[i] = 0

\* The copy constraints hold: the columns are in the permutation and the
\* cells are equal.
CopiesHold(permutation, copies, cells) ==
    \A copy \in copies :
        /\ copy[1] \in permutation
        /\ copy[2] \in permutation
        /\ query_advice(cells, copy[1], "cur") = query_advice(cells, copy[2], "cur")

\* The constraints of a row of the fixed-base short signed mul.
mul_fixed_short_satisfied(config, cells) ==
    LET g == mul_fixed_short_queries(config, cells)
    IN  /\ AllZero(mul_fixed_short_create_gate(1, g.s, g.y_a, g.y_p))
        /\ CopiesHold(config.perm_sum, mul_fixed_short_copies(config), cells)

\* The cells the complete addition gate is given, with the indicators read
\* from add_complete_inv and the inverses from add_complete_bool.
add_complete_queries_exchanged(config, cells) ==
    [x_p |-> query_advice(cells, config.P[1], "cur"),
     y_p |-> query_advice(cells, config.P[2], "cur"),
     x_q |-> query_advice(cells, config.A[1], "cur"),
     y_q |-> query_advice(cells, config.A[2], "cur"),
     x_r |-> query_advice(cells, config.A[1], "next"),
     y_r |-> query_advice(cells, config.A[2], "next"),
     lambda |-> query_advice(cells, config.lambda[1], "cur"),
     a |-> query_advice(cells, config.add_complete_inv[1], "cur"),
     b |-> query_advice(cells, config.add_complete_inv[2], "cur"),
     c |-> query_advice(cells, config.add_complete_inv[3], "cur"),
     d |-> query_advice(cells, config.add_complete_inv[4], "cur"),
     alpha |-> query_advice(cells, config.add_complete_bool[1], "cur"),
     beta |-> query_advice(cells, config.add_complete_bool[2], "cur"),
     gamma |-> query_advice(cells, config.add_complete_bool[3], "cur"),
     delta |-> query_advice(cells, config.add_complete_bool[4], "cur")]

\* The cells the complete addition gate is given.
add_complete_queries(config, cells) ==
    [x_p |-> query_advice(cells, config.P[1], "cur"),
     y_p |-> query_advice(cells, config.P[2], "cur"),
     x_q |-> query_advice(cells, config.A[1], "cur"),
     y_q |-> query_advice(cells, config.A[2], "cur"),
     x_r |-> query_advice(cells, config.A[1], "next"),
     y_r |-> query_advice(cells, config.A[2], "next"),
     lambda |-> query_advice(cells, config.lambda[1], "cur"),
     a |-> query_advice(cells, config.add_complete_bool[1], "cur"),
     b |-> query_advice(cells, config.add_complete_bool[2], "cur"),
     c |-> query_advice(cells, config.add_complete_bool[3], "cur"),
     d |-> query_advice(cells, config.add_complete_bool[4], "cur"),
     alpha |-> query_advice(cells, config.add_complete_inv[1], "cur"),
     beta |-> query_advice(cells, config.add_complete_inv[2], "cur"),
     gamma |-> query_advice(cells, config.add_complete_inv[3], "cur"),
     delta |-> query_advice(cells, config.add_complete_inv[4], "cur")]

\* An indicator is boolean, is the product of its quantity and the inverse
\* witness, and is 1 unless the quantity is 0.
IndicatorPolys(q, quantity, indicator, inverse) ==
    <<FMul(q, FMul(indicator, FSub(1, indicator))),
      FMul(q, FSub(FMul(quantity, inverse), indicator)),
      FMul(q, FMul(FSub(1, indicator), quantity))>>

\* add_complete::create_gate: the indicators, the slope (of the chord where
\* the x differ, of the tangent where the points are equal) and the result
\* (the other operand where one is the identity, the identity where the
\* operands are opposite, the sum by the slope otherwise).
add_complete_create_gate(q, g) ==
    LET dx == FSub(g.x_q, g.x_p)
        sy == FAdd(g.y_p, g.y_q)
        tangent == FMul(FSub(1, g.a), g.d)
        regular == FMul(FMul(g.b, g.c), FAdd(g.a, tangent))
        opposite == FMul(FMul(g.b, g.c), FMul(FSub(1, g.a), FSub(1, g.d)))
        x_s == FSub(FSub(FSquare(g.lambda), g.x_p), g.x_q)
        y_s == FSub(FMul(g.lambda, FSub(g.x_p, x_s)), g.y_p)
    IN  IndicatorPolys(q, dx, g.a, g.alpha) \o
        IndicatorPolys(q, g.x_p, g.b, g.beta) \o
        IndicatorPolys(q, g.x_q, g.c, g.gamma) \o
        IndicatorPolys(q, sy, g.d, g.delta) \o
        <<FMul(q, FMul(g.a, FSub(FMul(dx, g.lambda), FSub(g.y_q, g.y_p)))),
          FMul(q, FMul(tangent, FSub(FMul(FMul(2, g.y_p), g.lambda),
                                     FMul(3, FSquare(g.x_p))))),
          FMul(q, FMul(regular, FSub(g.x_r, x_s))),
          FMul(q, FMul(regular, FSub(g.y_r, y_s))),
          FMul(q, FMul(FSub(1, g.b), FSub(g.x_r, g.x_q))),
          FMul(q, FMul(FSub(1, g.b), FSub(g.y_r, g.y_q))),
          FMul(q, FMul(FMul(g.b, FSub(1, g.c)), FSub(g.x_r, g.x_p))),
          FMul(q, FMul(FMul(g.b, FSub(1, g.c)), FSub(g.y_r, g.y_p))),
          FMul(q, FMul(opposite, g.x_r)),
          FMul(q, FMul(opposite, g.y_r))>>

\* The constraints of a complete addition row.
add_complete_satisfied(config, cells) ==
    AllZero(add_complete_create_gate(1, add_complete_queries(config, cells)))

-----------------------------------------------------------------------------
(* Rows assigned by a prover, honest or not. *)

\* The sign cells, the unsigned results and the coordinates of the signed
\* result that a prover assigns on a row of the fixed-base short signed mul.
SignCells == {0, 1, 2}
UnsignedResults == {ToCells(MultG(k)) : k \in {0, 1, 2}}
SignedXs == {ToCells(MultG(k)).x : k \in {0, 1, 2}}
SignedYs ==
    {ToCells(MultG(k)).y : k \in {0, 1, 2}} \cup
    {FNeg(ToCells(MultG(k)).y) : k \in {1, 2}} \cup {1}

AssignShortRow(s, unsigned, x_p, y_p) ==
    /\ out = NoOut
    /\ LET config == MyCircuit_configure
           c1 == assign_advice(EmptyCells, config.bits, "cur", s)
           c2 == assign_advice(c1, config.A[1], "cur", unsigned.x)
           c3 == assign_advice(c2, config.A[2], "cur", unsigned.y)
           c4 == assign_advice(c3, config.P[1], "cur", x_p)
           cells == assign_advice(c4, config.P[2], "cur", y_p)
       IN  out' = [op |-> "mul_fixed_short_row", cells |-> cells,
                   satisfied |-> mul_fixed_short_satisfied(config, cells)]
    /\ UNCHANGED <<duplex, loaded, a, b, scalar, fixed, firstFixed, kept, grid, builder, bundle>>

\* The operands of a complete addition row, the indicator cells a prover
\* assigns, and for each inverse cell whether it holds the inverse witness
\* (0 where there is none) or 0.
CompleteOperands == {ToCells(MultG(k)) : k \in {0, 1, 2, FQ - 1}}
IndicatorCells == {0, 1, 2}
InverseCells == {"inverse", "zero"}

InverseCell(choice, quantity) == IF choice = "inverse" THEN Inv0(quantity) ELSE 0

\* The cells of a complete addition row: the operands, the slope and the
\* result of add_complete::assign_region, with the given indicator and
\* inverse cells.
CompleteRowCells(config, p, q, indicators, inverses) ==
    LET row == add_complete_row(p, q)
        dx == FSub(q.x, p.x)
        sy == FAdd(p.y, q.y)
        quantities == <<dx, p.x, q.x, sy>>
        c1 == assign_advice(EmptyCells, config.P[1], "cur", row.x_p)
        c2 == assign_advice(c1, config.P[2], "cur", row.y_p)
        c3 == assign_advice(c2, config.A[1], "cur", row.x_q)
        c4 == assign_advice(c3, config.A[2], "cur", row.y_q)
        c5 == assign_advice(c4, config.A[1], "next", row.x_r)
        c6 == assign_advice(c5, config.A[2], "next", row.y_r)
        c7 == assign_advice(c6, config.lambda[1], "cur", row.lambda)
    IN  [c7 EXCEPT
            !["cur"] = [column \in 0 .. NumColumns - 1 |->
                IF \E i \in 1 .. 4 : config.add_complete_bool[i] = column
                THEN indicators[CHOOSE i \in 1 .. 4 :
                                    config.add_complete_bool[i] = column]
                ELSE IF \E i \in 1 .. 4 : config.add_complete_inv[i] = column
                THEN LET i == CHOOSE i \in 1 .. 4 :
                                  config.add_complete_inv[i] = column
                     IN  InverseCell(inverses[i], quantities[i])
                ELSE c7["cur"][column]]]

AssignCompleteRow(p, q, indicators, inverses) ==
    /\ out = NoOut
    /\ LET config == MyCircuit_configure
           cells == CompleteRowCells(config, p, q, indicators, inverses)
       IN  out' = [op |-> "add_complete_row", cells |-> cells,
                   honest |-> add_complete_row(p, q),
                   satisfied |-> add_complete_satisfied(config, cells)]
    /\ UNCHANGED <<duplex, loaded, a, b, scalar, fixed, firstFixed, kept, grid, builder, bundle>>

NextGates ==
    \/ \E s \in SignCells, unsigned \in UnsignedResults,
          x_p \in SignedXs, y_p \in SignedYs :
           AssignShortRow(s, unsigned, x_p, y_p)
    \/ \E p \in CompleteOperands, q \in CompleteOperands,
          indicators \in IndicatorCells \X IndicatorCells \X
                         IndicatorCells \X IndicatorCells,
          inverses \in InverseCells \X InverseCells \X InverseCells \X InverseCells :
           AssignCompleteRow(p, q, indicators, inverses)

SpecGates == Init /\ [][NextGates]_vars

\* The cells of the short signed mul row, by the columns of the EccConfig.
ShortRow ==
    LET config == MyCircuit_configure
    IN  [sign |-> out.cells["cur"][config.bits],
         x_unsigned |-> out.cells["cur"][config.A[1]],
         y_unsigned |-> out.cells["cur"][config.A[2]],
         x_out |-> out.cells["cur"][config.P[1]],
         y_out |-> out.cells["cur"][config.P[2]]]

CompleteRow ==
    LET config == MyCircuit_configure
        cur == out.cells["cur"]
    IN  [indicators |-> [i \in 1 .. 4 |-> cur[config.add_complete_bool[i]]],
         quantities |-> <<FSub(cur[config.A[1]], cur[config.P[1]]),
                          cur[config.P[1]],
                          cur[config.A[1]],
                          FAdd(cur[config.P[2]], cur[config.A[2]])>>]

\* An indicator cell is not boolean, or is not 1 exactly where the inverse
\* of its quantity is defined.
InconsistentIndicator ==
    \E i \in 1 .. 4 :
        \/ CompleteRow.indicators[i] \notin {0, 1}
        \/ CompleteRow.indicators[i] # Indicator(CompleteRow.quantities[i])

HonestRowSatisfied ==
    (out.op = "add_complete_row") =>
        (out.satisfied <=>
             /\ CompleteRow.indicators =
                    <<out.honest.a, out.honest.b, out.honest.c, out.honest.d>>
             /\ [i \in 1 .. 4 |->
                    out.cells["cur"][MyCircuit_configure.add_complete_inv[i]]] =
                    <<out.honest.alpha, out.honest.beta, out.honest.gamma,
                      out.honest.delta>>)

\* The values of the spends and of the outputs of the actions build makes of
\* a builder, a dummy having the default value.
PaddedValues(values, num_actions) ==
    [i \in 1 .. num_actions |->
        IF i <= Len(values) THEN values[i] ELSE NoteValueDefault]

\* The value balance of a builder, in the integers: the per-action
\* differences and their partial sums, and whether one of them is outside
\* the range of a ValueSum or takes a value that is.
ExpectedBalance(self) ==
    LET num_actions == NumActions(Len(self.spends), Len(self.recipients))
        spent == PaddedValues([i \in 1 .. Len(self.spends) |->
                                  self.spends[i].note.value], num_actions)
        output == PaddedValues([i \in 1 .. Len(self.recipients) |->
                                   self.recipients[i].value], num_actions)
        partial == [n \in 0 .. num_actions |->
                       LET RECURSIVE Sum(_)
                           Sum(i) == IF i = 0 THEN 0
                                     ELSE Sum(i - 1) + spent[i] - output[i]
                       IN  Sum(n)]
    IN  [balance |-> partial[num_actions],
         overflow |->
             \/ \E i \in 1 .. num_actions :
                    spent[i] > ValueSumMax \/ output[i] > ValueSumMax
             \/ \E n \in 0 .. num_actions :
                    partial[n] < ValueSumMin \/ partial[n] > ValueSumMax]

\* C21: build's value_balance is the sum over all actions, dummies included,
\* of spent value - output value; if a difference or a partial sum overflows
\* build returns Error::ValueSum and makes no bundle; the expect of
\* ActionInfo::build never panics.
BuildChecksValueSum ==
    (out.op = "build") =>
        /\ out.res # Panic("already checked this")
        /\ ExpectedBalance(out.before).overflow =>
               out.res = Err("ValueSum") /\ bundle = Null
        /\ IsOk(out.res) =>
               out.res.ok.value_balance = ExpectedBalance(out.before).balance

\* When build needs no dummy spend it is as C21 says.
BuildChecksValueSumWhenPaired ==
    (out.op = "build" /\ ~IsPanic(out.res)) =>
        IF ExpectedBalance(out.before).overflow
        THEN out.res = Err("ValueSum") /\ bundle = Null
        ELSE /\ IsOk(out.res)
             /\ out.res.ok.value_balance = ExpectedBalance(out.before).balance

\* build has stopped on an overflow instead of returning Error::ValueSum:
\* its only panics are those of the dummy spends.
BuildPanicsOnDummyOnly ==
    (out.op = "build" /\ IsPanic(out.res)) =>
        out.res = Panic("not yet implemented")

\* build has returned Error::ValueSum for a partial sum out of range, each
\* difference being in range.
ValueSumErrorWitness ==
    /\ out.op = "build"
    /\ out.res = Err("ValueSum")
    /\ \A i \in 1 .. Len(out.before.spends) :
           out.before.spends[i].note.value <= ValueSumMax

\* ---------------------------------------------------------------------------
\* The Poseidon duplex sponge (src/src/circuit/gadget/poseidon.rs).
\* Words are elements of the toy field F_FP; the chip behind the gadget
\* (PoseidonDuplexInstructions) is a width-3, rate-2 instance.

\* The width of the permutation and the rate of the sponge.
T == 3
RATE == 2

\* Option::None for a slot of a SpongeState.
NoWord == [none |-> TRUE]
IsSome(o) == "some" \in DOMAIN o

\* [None; RATE]
EmptyBlock == [i \in 1 .. RATE |-> NoWord]

\* The two modes of Sponge<F, RATE>.
Sponge_Absorbing(input) == [mode |-> "Absorbing", block |-> input]
Sponge_Squeezing(output) == [mode |-> "Squeezing", block |-> output]

\* Sponge::absorb(val): an absorbing sponge holding val in its first slot.
Sponge_absorb(val) ==
    Sponge_Absorbing([i \in 1 .. RATE |-> IF i = 1 THEN Some(val) ELSE NoWord])

\* The domain ConstantLength<L>.
ConstantLength(L) == [L |-> L]

\* PoseidonChip::initial_state: zero rate words, the capacity word encodes
\* the input length (L << 64).
initial_state(domain) ==
    [i \in 1 .. T |-> IF i <= RATE THEN 0 ELSE FMul(domain.L % FP, FPow(2, 64))]

\* PoseidonChip::pad_and_add: the words present in the input are added to the
\* rate part of the state; the padding of ConstantLength is zero words.
pad_and_add(domain, state, input) ==
    [i \in 1 .. T |->
        IF i <= RATE /\ IsSome(input[i]) THEN FAdd(state[i], input[i].some)
        ELSE state[i]]

\* One round of the permutation: round constants, the x^5 S-box, the MDS mix.
MDS == <<<<2, 1, 1>>, <<1, 2, 1>>, <<1, 1, 2>>>>
PoseidonRound(state, r) ==
    LET s == [i \in 1 .. T |-> FPow(FAdd(state[i], (r * T + i) % FP), 5)]
    IN  [i \in 1 .. T |->
            FAdd(FAdd(FMul(MDS[i][1], s[1]), FMul(MDS[i][2], s[2])),
                 FMul(MDS[i][3], s[3]))]

\* PoseidonChip::permute.
permute(state) == PoseidonRound(PoseidonRound(state, 1), 2)

\* PoseidonChip::get_output: the rate part of the state.
get_output(state) == [i \in 1 .. RATE |-> Some(state[i])]

\* poseidon_duplex: the new state and the output block.
poseidon_duplex(domain, state, input) ==
    LET added == pad_and_add(domain, state, input)
        permuted == permute(added)
    IN  [state |-> permuted, output |-> get_output(permuted)]

\* Duplex::new
Duplex_new(domain) ==
    [sponge |-> Sponge_Absorbing(EmptyBlock),
     state |-> initial_state(domain),
     domain |-> domain]

\* The lowest index of a slot satisfying is_none / is_some, 0 when there is none.
FirstNone(block) ==
    IF \E i \in 1 .. RATE : ~IsSome(block[i])
    THEN CHOOSE i \in 1 .. RATE :
            ~IsSome(block[i]) /\ \A j \in 1 .. i - 1 : IsSome(block[j])
    ELSE 0
FirstSome(block) ==
    IF \E i \in 1 .. RATE : IsSome(block[i])
    THEN CHOOSE i \in 1 .. RATE :
            IsSome(block[i]) /\ \A j \in 1 .. i - 1 : ~IsSome(block[j])
    ELSE 0

\* A call of poseidon_duplex, as the layouter sees it.
DuplexCall(state, input) == [state |-> state, input |-> input]

absorb_without_duplex(self, value) ==
    IF self.sponge.mode = "Absorbing" /\ FirstNone(self.sponge.block) # 0
    THEN [self |-> [self EXCEPT !.sponge.block[FirstNone(self.sponge.block)] = Some(value)],
          res |-> Ok(Unit), calls |-> <<>>]
    ELSE [self |-> [self EXCEPT !.sponge = Sponge_absorb(value)],
          res |-> Ok(Unit), calls |-> <<>>]

\* Duplex::absorb: the sponge afterwards, the result, and the duplexes run.
absorb(self, value) ==
    IF self.sponge.mode = "Absorbing"
    THEN LET input == self.sponge.block
             free == FirstNone(input)
         IN  IF free # 0
             THEN [self |-> [self EXCEPT !.sponge.block[free] = Some(value)],
                   res |-> Ok(Unit), calls |-> <<>>]
             ELSE LET d == poseidon_duplex(self.domain, self.state, input)
                  IN  [self |-> [self EXCEPT !.state = d.state,
                                             !.sponge = Sponge_absorb(value)],
                       res |-> Ok(Unit),
                       calls |-> <<DuplexCall(self.state, input)>>]
    ELSE [self |-> [self EXCEPT !.sponge = Sponge_absorb(value)],
          res |-> Ok(Unit), calls |-> <<>>]

RECURSIVE squeeze_without_take(_)
squeeze_without_take(self) ==
    IF self.sponge.mode = "Absorbing"
    THEN LET d == poseidon_duplex(self.domain, self.state, self.sponge.block)
             r == squeeze_without_take([self EXCEPT !.state = d.state,
                                          !.sponge = Sponge_Squeezing(d.output)])
         IN  [r EXCEPT !.calls = <<DuplexCall(self.state, self.sponge.block)>> \o r.calls]
    ELSE [self |-> self,
          res |-> Ok(self.sponge.block[FirstSome(self.sponge.block)].some),
          calls |-> <<>>]

\* Duplex::squeeze: the loop runs until an output word is taken.
RECURSIVE squeeze(_)
squeeze(self) ==
    IF self.sponge.mode = "Absorbing"
    THEN LET input == self.sponge.block
             d == poseidon_duplex(self.domain, self.state, input)
             r == squeeze([self EXCEPT !.state = d.state,
                                       !.sponge = Sponge_Squeezing(d.output)])
         IN  [r EXCEPT !.calls = <<DuplexCall(self.state, input)>> \o r.calls]
    ELSE LET output == self.sponge.block
             taken == FirstSome(output)
         IN  IF taken # 0
             THEN [self |-> [self EXCEPT !.sponge.block[taken] = NoWord],
                   res |-> Ok(output[taken].some),
                   calls |-> <<>>]
             ELSE squeeze([self EXCEPT !.sponge = Sponge_Absorbing(EmptyBlock)])

\* How many absorb and squeeze calls one sponge receives.
MaxDuplexOps == 5

\* The message lengths of the domains and the words absorbed.
Lengths == {1, 2}
Words == {1, 2}

\* The squeezes since the last absorb: the sponge they started from, the
\* words they returned and the duplexes they ran.
NewRun(self) == [start |-> self, words |-> <<>>, calls |-> <<>>]

NewDuplex ==
    /\ duplex = Null
    /\ out = NoOut
    /\ \E L \in Lengths :
        /\ duplex' = Duplex_new(ConstantLength(L))
        /\ out' = [op |-> "new", ops |-> 0, run |-> NewRun(duplex')]
    /\ UNCHANGED <<loaded, a, b, scalar, fixed, firstFixed, kept, grid, builder, bundle>>

Absorb ==
    /\ duplex # Null
    /\ out.ops < MaxDuplexOps
    /\ \E value \in Words :
        LET r == absorb(duplex, value)
        IN  /\ duplex' = r.self
            /\ out' = [op |-> "absorb", ops |-> out.ops + 1, before |-> duplex,
                       value |-> value, res |-> r.res, calls |-> r.calls,
                       run |-> NewRun(r.self)]
    /\ UNCHANGED <<loaded, a, b, scalar, fixed, firstFixed, kept, grid, builder, bundle>>

Squeeze ==
    /\ duplex # Null
    /\ out.ops < MaxDuplexOps
    /\ LET r == squeeze(duplex)
       IN  /\ duplex' = r.self
           /\ out' = [op |-> "squeeze", ops |-> out.ops + 1, before |-> duplex,
                      res |-> r.res, calls |-> r.calls,
                      run |-> [start |-> out.run.start,
                               words |-> Append(out.run.words, r.res.ok),
                               calls |-> out.run.calls \o r.calls]]
    /\ UNCHANGED <<loaded, a, b, scalar, fixed, firstFixed, kept, grid, builder, bundle>>

NextDuplex ==
    \/ NewDuplex
    \/ Absorb
    \/ Squeeze

SpecDuplex == Init /\ [][NextDuplex]_vars

\* What one duplex on the buffer of the sponge leaves in the state.
Duplexed(self) ==
    permute(pad_and_add(self.domain, self.state, self.sponge.block))

\* The buffer is full when every one of its RATE slots holds a word.
BufferFull(self) ==
    self.sponge.mode = "Absorbing" /\ \A i \in 1 .. RATE : IsSome(self.sponge.block[i])

\* The buffer holding only the word w.
OnlyWord(w) == [i \in 1 .. RATE |-> IF i = 1 THEN Some(w) ELSE NoWord]

AbsorbDiscardsWitness ==
    /\ out.op = "absorb"
    /\ out.before.sponge.mode = "Squeezing"
    /\ \E i \in 1 .. RATE : IsSome(out.before.sponge.block[i])

\* The state after the k-th duplex of a run of squeezes that started from the
\* sponge start: the first duplex takes the buffer of start, every later one
\* an all-empty block.
RECURSIVE RunState(_, _)
RunState(start, k) ==
    IF k = 1 THEN Duplexed(start)
    ELSE permute(pad_and_add(start.domain, RunState(start, k - 1), EmptyBlock))

\* The k-th output block of the run, and the block and the index inside it
\* that the n-th squeeze of the run reads.
RunBlock(start, k) == get_output(RunState(start, k))
BlockOf(n) == ((n - 1) \div RATE) + 1
SlotOf(n) == ((n - 1) % RATE) + 1

SqueezePartialBufferWitness ==
    /\ out.op = "squeeze"
    /\ out.run.start.sponge.block[1] # NoWord
    /\ out.run.start.sponge.block[RATE] = NoWord
    /\ Len(out.run.words) = RATE

=============================================================================
